---- MODULE Spec2Model ----
(***************************************************************************)
(* A model of the fgp-benchmark engine: the three tool adapters            *)
(* (tools/fgp.py, tools/agent_browser.py, tools/playwright_mcp.py), the    *)
(* flat single-operation runners and their summary                         *)
(* (benchmarks/single_ops.py), the workflow runner                         *)
(* (benchmarks/workflows.py), the comparator and its statistics functions  *)
(* (benchmarks/statistics.py), the concurrency test                        *)
(* (benchmarks/concurrency.py) and the orchestrator (benchmark.py).        *)
(*                                                                         *)
(* Strings that the code only measures or truncates are modelled by their  *)
(* length; latencies are integers in milliseconds; values the code         *)
(* computes with true division are exact rationals [num, den].             *)
(***************************************************************************)
EXTENDS Integers, Sequences, FiniteSets, TLC

VARIABLES
    \* ---- one adapter instance (tools/*.py)
    tool,           \* which adapter class the instance is (its name property)
    installed,      \* _cli_path / _npx_path is not None
    cold_start,     \* the instance's _cold_start flag
    last,           \* the BenchmarkResult the latest adapter call returned
    ncalls,         \* number of adapter calls made so far
    \* ---- one flat runner invocation (benchmarks/single_ops.py)
    runner,         \* which benchmark_* function runs
    iterations,     \* its iterations argument
    warmup,         \* its warmup argument
    pc,             \* where the runner is
    i,              \* the loop variable of the running loop
    results,        \* the runner's results list
    calls,          \* the adapter calls made by the runner or workflow, in order
    summary,        \* the OperationSummary computed from results
    \* ---- one workflow invocation (benchmarks/workflows.py)
    wf,             \* which workflow function runs
    pages,          \* the pages argument of workflow_pagination
    wpc,            \* position in the plan of the step to execute next
    returned,       \* the workflow function has returned wresult
    wresult,        \* the WorkflowResult (result) being built, then returned
    \* ---- compute_statistics (benchmarks/statistics.py)
    raw,            \* report.single_ops["raw_results"]
    spc,            \* "collect" until compute_statistics has run
    comparisons,    \* stats["comparisons"]
    \* ---- one call of a statistics function (benchmarks/statistics.py,
    \*      _percentile of benchmarks/single_ops.py)
    sampleA,        \* the first sample (sample1, data)
    sampleB,        \* the second sample (sample2)
    fpc,            \* "input", then the name of the function that was called
    fout,           \* what the call returned
    \* ---- one call of test_concurrent_requests (benchmarks/concurrency.py)
    parallel_count, \* its parallel_count argument
    workers,        \* the futures, in the order of their submission
    cpc,            \* where the calling thread is
    cresults,       \* the list results of success flags
    times,          \* the list times
    cresult,        \* the ConcurrencyResult returned
    \* ---- run_all_benchmarks (benchmark.py)
    backend,        \* the state of the three backends on this machine
    rtools,         \* the list tools
    suite,          \* the suite that runs
    rk,             \* position in rtools of the tool the suite works on
    rj,             \* position of the operation, workflow or level
    report,         \* the trial results the report holds
    invoked         \* the tools an operation was invoked on

adapterVars  == <<tool, installed, cold_start, last, ncalls>>
runnerVars   == <<runner, iterations, warmup, pc, i, results, summary>>
workflowVars == <<wf, pages, wpc, returned, wresult>>
statsVars    == <<raw, spc, comparisons>>
fnVars       == <<sampleA, sampleB, fpc, fout>>
concVars     == <<parallel_count, workers, cpc, cresults, times, cresult>>
runVars      == <<backend, rtools, suite, rk, rj, report, invoked>>

vars == <<adapterVars, runnerVars, calls, workflowVars, statsVars, fnVars,
          concVars, runVars>>

\* what the actions of one component leave alone
outsideAdapter  == <<runnerVars, calls, workflowVars, statsVars, fnVars,
                     concVars, runVars>>
outsideRunner   == <<last, ncalls, workflowVars, statsVars, fnVars, concVars,
                     runVars>>
outsideWorkflow == <<last, ncalls, runnerVars, statsVars, fnVars, concVars,
                     runVars>>
outsideStats    == <<adapterVars, runnerVars, calls, workflowVars, fnVars,
                     concVars, runVars>>
outsideFn       == <<adapterVars, runnerVars, calls, workflowVars, statsVars,
                     concVars, runVars>>
outsideConc     == <<last, ncalls, runnerVars, calls, workflowVars, statsVars,
                     fnVars, runVars>>

(***************************************************************************)
(* Bounds of the model.                                                    *)
(***************************************************************************)
MaxCalls   == 3     \* adapter calls in the adapter specification
MaxIter    == 2     \* largest iterations argument of a flat runner
MaxWarmup  == 1     \* largest warmup argument of a flat runner
MaxSamples == 5     \* largest result list given to _compute_summary
MaxRaw     == 4     \* largest raw_results list given to compute_statistics
MaxLen     == 3     \* longest sample given to a statistics function
SeparatedLen == 5   \* length of the two samples of a separated pair
MaxZeros   == 10    \* longest run of equal values in a sample with outliers
MaxParallel == 6    \* largest parallel_count given to test_concurrent_requests
MaxPages   == 2     \* largest pages argument of workflow_pagination
MaxRacers  == 3     \* most workers sharing one cold adapter instance

(***************************************************************************)
(* Program constants.                                                      *)
(***************************************************************************)
TimeoutMs  == 60000 \* latency_ms of a timed-out call
ErrLimit   == 500   \* the [:500] slices of the error text
CharsPerToken == 4  \* estimate_tokens

Tools == {"fgp_browser", "agent_browser", "playwright_mcp"}
Operations == {"navigate", "snapshot", "screenshot", "click", "fill"}

(***************************************************************************)
(* Strings by length.  A Python str | None is [isNone, text, len]: text    *)
(* names where the characters come from, len is the number of characters.  *)
(***************************************************************************)
None == [isNone |-> TRUE, text |-> "", len |-> 0]
Str(text, len) == [isNone |-> FALSE, text |-> text, len |-> len]

\* s[:limit] keeps at most limit characters
Slice(len, limit) == IF len > limit THEN limit ELSE len

\* Python truthiness of a str | None: neither None nor ""
Truthy(s) == ~s.isNone /\ s.len > 0

estimate_tokens(len) == len \div CharsPerToken

BenchmarkResult(t, operation, test_case, iteration, latency_ms, success, is_cold_start, payload_size, token_estimate, error) ==
    [tool |-> t, operation |-> operation, test_case |-> test_case,
     iteration |-> iteration, latency_ms |-> latency_ms, success |-> success,
     is_cold_start |-> is_cold_start, payload_size |-> payload_size,
     token_estimate |-> token_estimate, error |-> error]

\* the dataclass defaults: is_cold_start=False, payload_size=0,
\* token_estimate=0
FailedResult(t, operation, test_case, iteration, latency_ms, error) ==
    BenchmarkResult(t, operation, test_case, iteration, latency_ms, FALSE,
                    FALSE, 0, 0, error)

(***************************************************************************)
(* What the backend does with one call: the environment's answer.          *)
(*   kind       completed | timeout | exception                            *)
(*   socket     FGP: SOCKET_PATH.exists() at the time of the call          *)
(*   returncode, stdout_len, stderr_len   of the finished subprocess       *)
(*   msg_len    len(str(e)) of an unexpected exception                     *)
(*   elapsed_ms the measured wall time of a completed call                 *)
(*   reply      Playwright MCP: what the first line of stdout starting     *)
(*              with "{" is: none (no such line), result, error, neither   *)
(*              (a JSON object with neither key), badjson                  *)
(*   reply_len  len(str(response["result"])) or len(str(response["error"]))*)
(***************************************************************************)
Env(kind, socket, returncode, stdout_len, stderr_len, msg_len, elapsed_ms, reply, reply_len) ==
    [kind |-> kind, socket |-> socket, returncode |-> returncode,
     stdout_len |-> stdout_len, stderr_len |-> stderr_len,
     msg_len |-> msg_len, elapsed_ms |-> elapsed_ms,
     reply |-> reply, reply_len |-> reply_len]

(***************************************************************************)
(* FGPBrowserTool._run_command.  Returns the BenchmarkResult and the new   *)
(* value of self._cold_start.  With _cli_path None the argv               *)
(* [None] + args makes subprocess.run raise, which the broad except        *)
(* turns into a failed result.                                             *)
(***************************************************************************)
FGP_run_command(inst, cold, env, operation, test_case, iteration) ==
    IF ~env.socket
    THEN [result |-> FailedResult("fgp_browser", operation, test_case,
                                  iteration, 0,
                                  Str("Daemon not running", 18)),
          cold |-> cold]
    ELSE IF inst /\ env.kind = "completed"
    THEN [result |-> BenchmarkResult(
                        "fgp_browser", operation, test_case, iteration,
                        env.elapsed_ms,
                        env.returncode = 0,
                        cold,
                        env.stdout_len,
                        estimate_tokens(env.stdout_len),
                        IF env.returncode # 0
                        THEN Str("stderr", Slice(env.stderr_len, ErrLimit))
                        ELSE None),
          cold |-> FALSE]
    ELSE IF inst /\ env.kind = "timeout"
    THEN [result |-> FailedResult("fgp_browser", operation, test_case,
                                  iteration, TimeoutMs,
                                  Str("Timeout after 60s", 17)),
          cold |-> cold]
    ELSE [result |-> FailedResult("fgp_browser", operation, test_case,
                                  iteration, 0,
                                  Str("exception", Slice(env.msg_len, ErrLimit))),
          cold |-> cold]

(***************************************************************************)
(* AgentBrowserTool._run_command.                                          *)
(***************************************************************************)
Agent_run_command(inst, cold, env, operation, test_case, iteration) ==
    IF ~inst
    THEN [result |-> FailedResult("agent_browser", operation, test_case,
                                  iteration, 0,
                                  Str("agent-browser CLI not installed", 31)),
          cold |-> cold]
    ELSE IF env.kind = "completed"
    THEN [result |-> BenchmarkResult(
                        "agent_browser", operation, test_case, iteration,
                        env.elapsed_ms,
                        env.returncode = 0,
                        cold,
                        env.stdout_len,
                        estimate_tokens(env.stdout_len),
                        IF env.returncode # 0
                        THEN Str("stderr", Slice(env.stderr_len, ErrLimit))
                        ELSE None),
          cold |-> FALSE]
    ELSE IF env.kind = "timeout"
    THEN [result |-> FailedResult("agent_browser", operation, test_case,
                                  iteration, TimeoutMs,
                                  Str("Timeout after 60s", 17)),
          cold |-> cold]
    ELSE [result |-> FailedResult("agent_browser", operation, test_case,
                                  iteration, 0,
                                  Str("exception", Slice(env.msg_len, ErrLimit))),
          cold |-> cold]

(***************************************************************************)
(* PlaywrightMCPTool._call_mcp.  McpParse is the "Parse response" block    *)
(* (lines 99-120): success, error and payload_size from stdout and stderr. *)
(***************************************************************************)
\* a parse without the closing "if not success and not error" fallback
McpParse_NoFallback(env) ==
    LET success == env.stdout_len > 0 /\ env.reply = "result"
    IN  [success |-> success,
         error |-> IF env.stdout_len > 0 /\ env.reply = "error"
                   THEN Str("response error", env.reply_len)
                   ELSE None,
         payload_size |-> IF success THEN env.reply_len ELSE 0]

McpParse(env) ==
    LET success == env.stdout_len > 0 /\ env.reply = "result"
        payload_size == IF success THEN env.reply_len ELSE 0
        parsed  == IF env.stdout_len > 0 /\ env.reply = "error"
                   THEN Str("response error", env.reply_len)
                   ELSE None
        error   == IF ~success /\ ~Truthy(parsed)
                   THEN IF env.stderr_len > 0
                        THEN Str("stderr", Slice(env.stderr_len, ErrLimit))
                        ELSE Str("Unknown error", 13)
                   ELSE parsed
    IN  [success |-> success, error |-> error, payload_size |-> payload_size]

Playwright_call_mcp(inst, cold, env, operation, test_case, iteration) ==
    IF ~inst
    THEN [result |-> FailedResult("playwright_mcp", operation, test_case,
                                  iteration, 0,
                                  Str("npx not available", 17)),
          cold |-> cold]
    ELSE IF env.kind = "completed"
    THEN LET p == McpParse(env)
         IN [result |-> BenchmarkResult(
                        "playwright_mcp", operation, test_case, iteration,
                        env.elapsed_ms,
                        p.success,
                        cold,
                        p.payload_size,
                        estimate_tokens(env.stdout_len),
                        p.error),
             cold |-> FALSE]
    ELSE IF env.kind = "timeout"
    THEN [result |-> FailedResult("playwright_mcp", operation, test_case,
                                  iteration, TimeoutMs,
                                  Str("Timeout after 60s", 17)),
          cold |-> cold]
    ELSE [result |-> FailedResult("playwright_mcp", operation, test_case,
                                  iteration, 0,
                                  Str("exception", Slice(env.msg_len, ErrLimit))),
          cold |-> cold]

(***************************************************************************)
(* tool.navigate / snapshot / screenshot / click / fill: each passes its   *)
(* operation name, test_case and iteration to the adapter's one call       *)
(* routine.                                                                *)
(***************************************************************************)
Invoke(t, inst, cold, env, operation, test_case, iteration) ==
    IF t = "fgp_browser"
    THEN FGP_run_command(inst, cold, env, operation, test_case, iteration)
    ELSE IF t = "agent_browser"
    THEN Agent_run_command(inst, cold, env, operation, test_case, iteration)
    ELSE Playwright_call_mcp(inst, cold, env, operation, test_case, iteration)

(***************************************************************************)
(* The answers the environment can give to one call of adapter t.          *)
(***************************************************************************)
SubprocessEnvs(stdouts, stderrs, msgs, lats) ==
    {Env("completed", TRUE, rc, so, se, 0, el, "none", 0) :
        rc \in {0, 1}, so \in stdouts, se \in stderrs, el \in lats}
    \cup {Env("timeout", TRUE, 0, 0, 0, 0, 0, "none", 0)}
    \cup {Env("exception", TRUE, 0, 0, 0, m, 0, "none", 0) : m \in msgs}

McpEnvs(stdouts, stderrs, msgs, lats) ==
    {Env("completed", TRUE, 0, 0, se, 0, el, "none", 0) :
        se \in stderrs, el \in lats}
    \cup {Env("completed", TRUE, 0, so, se, 0, el, rp, 0) :
        so \in stdouts \ {0}, se \in stderrs, el \in lats,
        rp \in {"none", "neither", "badjson"}}
    \cup {Env("completed", TRUE, 0, so, se, 0, el, "result", so - 4) :
        so \in stdouts \ {0}, se \in stderrs, el \in lats}
    \cup {Env("completed", TRUE, 0, so, se, 0, el, "error", n) :
        so \in stdouts \ {0}, se \in stderrs, el \in lats, n \in msgs}
    \cup {Env("timeout", TRUE, 0, 0, 0, 0, 0, "none", 0)}
    \cup {Env("exception", TRUE, 0, 0, 0, m, 0, "none", 0) : m \in msgs}

EnvsOf(t, stdouts, stderrs, msgs, lats) ==
    IF t = "fgp_browser"
    THEN SubprocessEnvs(stdouts, stderrs, msgs, lats)
         \cup {Env("completed", FALSE, 0, 0, 0, 0, 0, "none", 0)}
    ELSE IF t = "agent_browser"
    THEN SubprocessEnvs(stdouts, stderrs, msgs, lats)
    ELSE McpEnvs(stdouts, stderrs, msgs, lats)

\* every shape of answer: empty and non-empty output, error texts shorter
\* and longer than the slice, two latencies
AdapterEnvs(t) ==
    EnvsOf(t, {0, 7}, {0, ErrLimit + 1}, {0, ErrLimit + 1}, {100, 500})

(***************************************************************************)
(* The adapter instance on its own: calls, stop() and start().             *)
(***************************************************************************)
NoResult == FailedResult("", "", "", 0, 0, None)

NoSummary == [count |-> -1]

\* the components a specification does not run stay as constructed
RunnerIdle ==
    /\ runner = "" /\ iterations = 0 /\ warmup = 0 /\ pc = "idle" /\ i = 0
    /\ results = <<>> /\ summary = NoSummary

WorkflowIdle ==
    /\ wf = "" /\ pages = 0 /\ wpc = 0 /\ returned = FALSE
    /\ wresult = [steps |-> <<>>]

StatsIdle ==
    /\ raw = <<>> /\ spc = "idle" /\ comparisons = <<>>

FnIdle ==
    /\ sampleA = <<>> /\ sampleB = <<>> /\ fpc = "idle" /\ fout = <<>>

ConcIdle ==
    /\ parallel_count = 0 /\ workers = <<>> /\ cpc = "idle"
    /\ cresults = <<>> /\ times = <<>> /\ cresult = <<>>

RunIdle ==
    /\ backend = <<>> /\ rtools = <<>> /\ suite = "idle" /\ rk = 0 /\ rj = 0
    /\ report = <<>> /\ invoked = {}

AdapterInit ==
    /\ tool \in Tools
    /\ installed \in BOOLEAN
    /\ cold_start = TRUE
    /\ last = NoResult
    /\ ncalls = 0
    /\ calls = <<>>
    /\ RunnerIdle
    /\ WorkflowIdle
    /\ StatsIdle
    /\ FnIdle
    /\ ConcIdle
    /\ RunIdle

AdapterCall ==
    /\ ncalls < MaxCalls
    /\ \E operation \in Operations, env \in AdapterEnvs(tool) :
          LET out == Invoke(tool, installed, cold_start, env, operation,
                            "default", 0)
          IN  /\ last' = out.result
              /\ cold_start' = out.cold
    /\ ncalls' = ncalls + 1
    /\ UNCHANGED <<tool, installed, outsideAdapter>>

\* stop() of each adapter ends with self._cold_start = True
AdapterStop ==
    /\ ncalls > 0
    /\ cold_start' = TRUE
    /\ UNCHANGED <<tool, installed, last, ncalls, outsideAdapter>>

AdapterNext == AdapterCall \/ AdapterStop

SpecAdapter == AdapterInit /\ [][AdapterNext]_vars

\* C1: every BenchmarkResult an adapter returns has success = false
\* exactly when its error is not None.
C1_ErrorSuccessDuality ==
    ncalls > 0 => (last.success = FALSE <=> ~last.error.isNone)

\* the duality is exercised on a failure whose error text is the empty
\* string (a non-zero exit status with nothing on stderr)
C1_Witness ==
    /\ ncalls > 0 /\ ~last.success
    /\ ~last.error.isNone /\ last.error.len = 0 /\ last.error.text = "stderr"

(***************************************************************************)
(* Exact arithmetic.  A float the code computes is a rational [num, den]   *)
(* with den > 0; raised marks a computation that raised an exception       *)
(* instead of returning.                                                   *)
(***************************************************************************)
Rat(n, d) == [num |-> n, den |-> d, raised |-> FALSE]
Raised    == [num |-> 0, den |-> 1, raised |-> TRUE]
RatLE(a, b) == a.num * b.den <= b.num * a.den
RatLT(a, b) == a.num * b.den < b.num * a.den
RatEq(a, b) == a.num * b.den = b.num * a.den

RECURSIVE Sum(_)
Sum(data) == IF data = <<>> THEN 0 ELSE Head(data) + Sum(Tail(data))

RECURSIVE SumSq(_)
SumSq(data) ==
    IF data = <<>> THEN 0 ELSE Head(data) * Head(data) + SumSq(Tail(data))

\* insert x into the ascending sequence s, after the elements equal to it
RECURSIVE Insert(_, _)
Insert(x, s) ==
    IF s = <<>> THEN <<x>>
    ELSE IF x < Head(s) THEN <<x>> \o s
    ELSE <<Head(s)>> \o Insert(x, Tail(s))

\* sorted(data)
RECURSIVE sorted(_)
sorted(data) ==
    IF data = <<>> THEN <<>>
    ELSE Insert(data[Len(data)], sorted(SubSeq(data, 1, Len(data) - 1)))

\* statistics.mean: StatisticsError on no data
mean(data) ==
    IF data = <<>> THEN Raised ELSE Rat(Sum(data), Len(data))

\* statistics.median: StatisticsError on no data; the middle element, or
\* the average of the two middle elements
median(data) ==
    IF data = <<>> THEN Raised
    ELSE LET s == sorted(data)
             n == Len(s)
         IN  IF n % 2 = 1 THEN Rat(s[(n \div 2) + 1], 1)
             ELSE Rat(s[n \div 2] + s[(n \div 2) + 1], 2)

\* statistics.stdev squared (the sample variance): StatisticsError on fewer
\* than two points
stdev_sq(data) ==
    IF Len(data) < 2 THEN Raised
    ELSE LET n == Len(data)
         IN  Rat(n * SumSq(data) - Sum(data) * Sum(data), n * (n - 1))

\* min(data), max(data): ValueError on an empty list
min(data) ==
    IF data = <<>> THEN Raised
    ELSE Rat(sorted(data)[1], 1)

max(data) ==
    IF data = <<>> THEN Raised
    ELSE Rat(sorted(data)[Len(data)], 1)

(***************************************************************************)
(* _percentile(data, p), p an integer.  k = (n-1)*p/100, f = int(k),       *)
(* c = f+1 if f < n-1 else f; the list is indexed from 0 in the code and   *)
(* from 1 here.  An index past the end of the list raises IndexError.      *)
(***************************************************************************)
_percentile_Unsorted(data, p) ==
    IF data = <<>> THEN Rat(0, 1)
    ELSE LET n    == Len(data)
             k100 == (n - 1) * p
             f    == k100 \div 100
             c    == IF f < n - 1 THEN f + 1 ELSE f
         IN  IF f > n - 1 THEN Raised
             ELSE Rat(100 * data[f + 1]
                        + (k100 - 100 * f) * (data[c + 1] - data[f + 1]),
                      100)

_percentile(data, p) ==
    IF data = <<>> THEN Rat(0, 1)
    ELSE LET sorted_data == sorted(data)
             n    == Len(sorted_data)
             k100 == (n - 1) * p
             f    == k100 \div 100
             c    == IF f < n - 1 THEN f + 1 ELSE f
         IN  IF f > n - 1 THEN Raised
             ELSE Rat(100 * sorted_data[f + 1]
                        + (k100 - 100 * f)
                            * (sorted_data[c + 1] - sorted_data[f + 1]),
                      100)

(***************************************************************************)
(* _compute_summary.                                                       *)
(***************************************************************************)
NoneMs    == [isNone |-> TRUE, ms |-> 0]
SomeMs(x) == [isNone |-> FALSE, ms |-> x]

\* successful = [r for r in results if r.success]
Successful(rs) == SelectSeq(rs, LAMBDA r : r.success)

\* [r.latency_ms for r in rs]
LatenciesOf(rs) == [j \in 1..Len(rs) |-> rs[j].latency_ms]

ColdOf(rs) == SelectSeq(rs, LAMBDA r : r.is_cold_start)
WarmOf(rs) == SelectSeq(rs, LAMBDA r : ~r.is_cold_start)

\* a count that leaves the failed trials out
SummaryCount_SuccessfulOnly(rs) == Len(SelectSeq(rs, LAMBDA r : r.success))

\* count=len(results)
SummaryCount(rs) == Len(rs)

\* success_rate=len(successful) / len(results) if results else 0.0
SummarySuccessRate(rs) ==
    IF rs # <<>> THEN Rat(Len(Successful(rs)), Len(rs)) ELSE Rat(0, 1)

\* the mean without its "if latencies" guard
SummaryMean_Unguarded(latencies) == mean(latencies)

\* mean_ms=statistics.mean(latencies) if latencies else 0.0
SummaryMean(latencies) ==
    IF latencies # <<>> THEN mean(latencies) ELSE Rat(0, 1)

\* statistics over every trial, failed and timed-out ones included
SummaryLatencies_AllTrials(rs) == LatenciesOf(rs)

\* the latencies the statistics are computed from (lines 73-74)
SummaryLatencies(rs) == LatenciesOf(Successful(rs))

_compute_summary(rs) ==
    IF rs = <<>>
    THEN [tool |-> "unknown", operation |-> "unknown",
          test_case |-> "unknown", count |-> 0,
          success_rate |-> Rat(0, 1), mean_ms |-> Rat(0, 1),
          median_ms |-> Rat(0, 1), std_dev_ms_sq |-> Rat(0, 1),
          min_ms |-> Rat(0, 1), max_ms |-> Rat(0, 1),
          p95_ms |-> Rat(0, 1), p99_ms |-> Rat(0, 1),
          cold_start_ms |-> NoneMs, warm_mean_ms |-> Rat(0, 1)]
    ELSE LET latencies      == SummaryLatencies(rs)
             cold_latencies == LatenciesOf(ColdOf(Successful(rs)))
             warm_latencies == LatenciesOf(WarmOf(Successful(rs)))
         IN [tool |-> rs[1].tool, operation |-> rs[1].operation,
             test_case |-> rs[1].test_case,
             count |-> SummaryCount(rs),
             success_rate |-> SummarySuccessRate(rs),
             mean_ms |-> SummaryMean(latencies),
             median_ms |-> IF latencies # <<>> THEN median(latencies)
                           ELSE Rat(0, 1),
             std_dev_ms_sq |-> IF Len(latencies) > 1 THEN stdev_sq(latencies)
                               ELSE Rat(0, 1),
             min_ms |-> IF latencies # <<>> THEN min(latencies)
                        ELSE Rat(0, 1),
             max_ms |-> IF latencies # <<>> THEN max(latencies)
                        ELSE Rat(0, 1),
             p95_ms |-> _percentile(latencies, 95),
             p99_ms |-> _percentile(latencies, 99),
             cold_start_ms |-> IF cold_latencies # <<>>
                               THEN SomeMs(cold_latencies[1]) ELSE NoneMs,
             warm_mean_ms |-> IF warm_latencies # <<>>
                              THEN mean(warm_latencies) ELSE Rat(0, 1)]

\* the call _compute_summary(results) raised instead of returning
SummaryRaised(s) ==
    \/ s.success_rate.raised \/ s.mean_ms.raised \/ s.median_ms.raised
    \/ s.std_dev_ms_sq.raised \/ s.min_ms.raised \/ s.max_ms.raised
    \/ s.p95_ms.raised \/ s.p99_ms.raised \/ s.warm_mean_ms.raised

(***************************************************************************)
(* The flat runners benchmark_navigate, benchmark_snapshot,                *)
(* benchmark_screenshot, benchmark_click and benchmark_fill.  They differ  *)
(* in the operation they call, the test_case labels and in               *)
(* benchmark_navigate having no setup navigation.                          *)
(*   pc = "setup"    before the untimed setup navigate                     *)
(*   pc = "warmup"   in the warmup loop, i its loop variable               *)
(*   pc = "measure"  in the measured loop, i its loop variable             *)
(*   pc = "done"     the runner has returned results                       *)
(*   pc = "summarized"  _compute_summary(results) has been evaluated       *)
(***************************************************************************)
HasSetup(r) == r # "navigate"

SetupCase(r) ==
    IF r = "snapshot" THEN "snapshot_setup"
    ELSE IF r = "screenshot" THEN "screenshot_setup"
    ELSE IF r = "click" THEN "click_setup"
    ELSE "fill_setup"

MeasuredCase(r) ==
    IF r = "navigate" THEN "navigate_simple"
    ELSE IF r = "snapshot" THEN "snapshot_quotes"
    ELSE IF r = "screenshot" THEN "screenshot_simple"
    ELSE IF r = "click" THEN "click_input"
    ELSE "fill_input"

\* one entry of the log of adapter calls: what was called and whether the
\* BenchmarkResult it returned had success = true
Call(operation, test_case, iteration, success) ==
    [operation |-> operation, test_case |-> test_case,
     iteration |-> iteration, success |-> success]

\* where control goes when the warmup loop starts: range(warmup) and
\* range(iterations) may be empty
EnterWarmup(w, m) ==
    IF w > 0 THEN "warmup" ELSE IF m > 0 THEN "measure" ELSE "done"

\* where control goes after the measured call with loop variable j
AfterMeasured(j, m) == IF j + 1 < m THEN "measure" ELSE "done"

\* a runner that goes on after a failed setup navigation
AfterSetup_Blind(nav_result, w, m) == EnterWarmup(w, m)

\* "if not nav_result.success: return results"
AfterSetup(nav_result, w, m) ==
    IF ~nav_result.success THEN "done" ELSE EnterWarmup(w, m)

\* a measured loop that drops the results of failed calls
Collect_SuccessfulOnly(rs, r) == IF r.success THEN Append(rs, r) ELSE rs

\* results.append(result) in the measured loop
Collect(rs, r) == Append(rs, r)

RunnerInit(maxIter) ==
    /\ tool \in Tools
    /\ installed \in BOOLEAN
    /\ cold_start = TRUE
    /\ last = NoResult
    /\ ncalls = 0
    /\ runner \in Operations
    /\ iterations \in 0..maxIter
    /\ warmup \in 0..MaxWarmup
    /\ pc = IF HasSetup(runner) THEN "setup"
            ELSE EnterWarmup(warmup, iterations)
    /\ i = 0
    /\ results = <<>>
    /\ calls = <<>>
    /\ summary = NoSummary
    /\ WorkflowIdle
    /\ StatsIdle
    /\ FnIdle
    /\ ConcIdle
    /\ RunIdle

RunnerSetup(envs) ==
    /\ pc = "setup"
    /\ \E env \in envs :
          LET out == Invoke(tool, installed, cold_start, env, "navigate",
                            SetupCase(runner), 0)
          IN  /\ cold_start' = out.cold
              /\ pc' = AfterSetup(out.result, warmup, iterations)
              /\ calls' = Append(calls, Call("navigate", SetupCase(runner),
                                             0, out.result.success))
    /\ UNCHANGED <<tool, installed, runner, iterations, warmup, i, results,
                   summary, outsideRunner>>

RunnerWarmup(envs) ==
    /\ pc = "warmup"
    /\ \E env \in envs :
          LET out == Invoke(tool, installed, cold_start, env, runner,
                            "warmup", i)
          IN  /\ cold_start' = out.cold
              /\ calls' = Append(calls, Call(runner, "warmup", i,
                                             out.result.success))
    /\ IF i + 1 < warmup
       THEN /\ i' = i + 1
            /\ pc' = "warmup"
       ELSE /\ i' = 0
            /\ pc' = EnterWarmup(0, iterations)
    /\ UNCHANGED <<tool, installed, runner, iterations, warmup, results,
                   summary, outsideRunner>>

RunnerMeasure(envs) ==
    /\ pc = "measure"
    /\ \E env \in envs :
          LET out == Invoke(tool, installed, cold_start, env, runner,
                            MeasuredCase(runner), i)
          IN  /\ cold_start' = out.cold
              /\ results' = Collect(results, out.result)
              /\ calls' = Append(calls, Call(runner, MeasuredCase(runner), i,
                                             out.result.success))
    /\ pc' = AfterMeasured(i, iterations)
    /\ i' = IF i + 1 < iterations THEN i + 1 ELSE i
    /\ UNCHANGED <<tool, installed, runner, iterations, warmup, summary,
                   outsideRunner>>

\* run_single_ops_benchmark: _compute_summary(nav_results) and the like
RunnerSummarize ==
    /\ pc = "done"
    /\ summary' = _compute_summary(results)
    /\ pc' = "summarized"
    /\ UNCHANGED <<tool, installed, cold_start, runner, iterations, warmup,
                   i, results, calls, outsideRunner>>

\* the answers that tell the runner's paths apart: success, failure with
\* and without error text, timeout, exception
RunnerEnvs(t) == EnvsOf(t, {7}, {0, ErrLimit + 1}, {ErrLimit + 1}, {100})

Init == RunnerInit(MaxIter)

Next ==
    \/ RunnerSetup(RunnerEnvs(tool))
    \/ RunnerWarmup(RunnerEnvs(tool))
    \/ RunnerMeasure(RunnerEnvs(tool))
    \/ RunnerSummarize

Spec == Init /\ [][Next]_vars

Returned == pc \in {"done", "summarized"}

\* the untimed setup navigate was made and returned success = false
SetupFailed == HasSetup(runner) /\ calls # <<>> /\ ~calls[1].success

\* the calls of the measured loop, in the order they were made
MeasuredCalls ==
    SelectSeq(calls, LAMBDA c : c.test_case = MeasuredCase(runner))

\* C2: a flat runner whose setup navigation did not fail returns exactly
\* `iterations` results; the j-th is the result of the measured call made
\* with iteration index j-1, in order; no warmup result is returned; a
\* failed measured call neither stops the loop nor shortens the list.
C2_OneResultPerIteration ==
    /\ pc = "measure" => Len(results) = i
    /\ (Returned /\ ~SetupFailed) =>
          /\ Len(results) = iterations
          /\ Len(MeasuredCalls) = iterations
          /\ \A j \in 1..Len(results) :
                /\ results[j].iteration = j - 1
                /\ results[j].operation = runner
                /\ results[j].test_case = MeasuredCase(runner)
                /\ MeasuredCalls[j].iteration = j - 1
                /\ results[j].success = MeasuredCalls[j].success

\* a run with warmup calls whose first measured call failed and which still
\* returned every iteration's result
C2_Witness ==
    /\ pc = "done" /\ ~SetupFailed /\ HasSetup(runner)
    /\ warmup > 0 /\ iterations >= 2
    /\ Len(results) = iterations
    /\ ~results[1].success /\ results[2].success

\* C3: when the setup navigate of benchmark_snapshot, benchmark_screenshot,
\* benchmark_click or benchmark_fill fails, the runner has returned an empty
\* list and the setup navigate is the only adapter call it has made.
C3_SetupFailureReturnsEmpty ==
    SetupFailed =>
        /\ Returned
        /\ results = <<>>
        /\ Len(calls) = 1
        /\ \A j \in 1..Len(calls) : calls[j].test_case = SetupCase(runner)

\* a failed setup in a run that was asked for warmup and measured calls
C3_Witness ==
    /\ SetupFailed /\ pc = "done"
    /\ warmup > 0 /\ iterations > 0
    /\ runner = "click"



(***************************************************************************)
(* _compute_summary over the result lists benchmark_navigate returns for   *)
(* the agent-browser adapter: up to MaxSamples measured calls that         *)
(* complete in 100 or 500 ms with exit status 0 or 1, time out (60000 ms)  *)
(* or raise (0 ms).  The summary reads no field that differs between the   *)
(* adapters.                                                               *)
(***************************************************************************)
SummaryEnvs(t) == EnvsOf(t, {7}, {0}, {0}, {100, 500})

SummaryInit ==
    /\ RunnerInit(MaxSamples)
    /\ runner = "navigate"
    /\ tool = "agent_browser"
    /\ installed = TRUE

SummaryNext ==
    \/ RunnerWarmup(SummaryEnvs(tool))
    \/ RunnerMeasure(SummaryEnvs(tool))
    \/ RunnerSummarize

SpecSummary == SummaryInit /\ [][SummaryNext]_vars

Summarized == pc = "summarized"

\* the positions of the successful trials in results, and their latencies
OkIdx == {j \in 1..Len(results) : results[j].success}
OkLat(j) == Rat(results[j].latency_ms, 1)

RECURSIVE SumAt(_)
SumAt(S) ==
    IF S = {} THEN 0
    ELSE LET j == CHOOSE x \in S : TRUE
         IN  results[j].latency_ms + SumAt(S \ {j})

Zero == Rat(0, 1)

\* C7: _compute_summary never raises; for an empty list and for a list
\* with no successful trial, mean, median, stddev, min, max, p95, p99 and
\* warm-mean are all 0 and cold_start_ms is None.
C7_SummaryOfNoSuccess ==
    Summarized =>
        /\ ~SummaryRaised(summary)
        /\ OkIdx = {} =>
              /\ RatEq(summary.mean_ms, Zero)
              /\ RatEq(summary.median_ms, Zero)
              /\ RatEq(summary.std_dev_ms_sq, Zero)
              /\ RatEq(summary.min_ms, Zero)
              /\ RatEq(summary.max_ms, Zero)
              /\ RatEq(summary.p95_ms, Zero)
              /\ RatEq(summary.p99_ms, Zero)
              /\ RatEq(summary.warm_mean_ms, Zero)
              /\ summary.cold_start_ms.isNone

\* a summary of several trials, one of them timed out, none successful
C7_Witness ==
    /\ Summarized /\ Len(results) >= 2 /\ OkIdx = {}
    /\ \E j \in 1..Len(results) : results[j].latency_ms = TimeoutMs
    /\ summary.count = Len(results)

\* C8: for a non-empty result list, count is the number of all trials,
\* success_rate = successful / count, and mean, median, min, max, p95, p99
\* come from the successful trials only: min and max are the smallest and
\* largest successful latency, mean is their sum over their number, half of
\* them lie on each side of the median, and
\* min <= median <= p95 <= p99 <= max, min <= mean <= max.
C8_SummaryStatistics ==
    (Summarized /\ results # <<>>) =>
        /\ summary.count = Len(results)
        /\ RatEq(summary.success_rate, Rat(Cardinality(OkIdx), Len(results)))
        /\ OkIdx # {} =>
              /\ \A j \in OkIdx : /\ RatLE(summary.min_ms, OkLat(j))
                                  /\ RatLE(OkLat(j), summary.max_ms)
              /\ \E j \in OkIdx : RatEq(summary.min_ms, OkLat(j))
              /\ \E j \in OkIdx : RatEq(summary.max_ms, OkLat(j))
              /\ RatEq(summary.mean_ms, Rat(SumAt(OkIdx), Cardinality(OkIdx)))
              /\ 2 * Cardinality({j \in OkIdx :
                                    RatLE(OkLat(j), summary.median_ms)})
                    >= Cardinality(OkIdx)
              /\ 2 * Cardinality({j \in OkIdx :
                                    RatLE(summary.median_ms, OkLat(j))})
                    >= Cardinality(OkIdx)
        /\ RatLE(summary.min_ms, summary.median_ms)
        /\ RatLE(summary.median_ms, summary.p95_ms)
        /\ RatLE(summary.p95_ms, summary.p99_ms)
        /\ RatLE(summary.p99_ms, summary.max_ms)
        /\ RatLE(summary.min_ms, summary.mean_ms)
        /\ RatLE(summary.mean_ms, summary.max_ms)

\* five successful trials with latencies 100, 100, 100, 100, 500:
\* mean 180, median 100, max 500, p95 strictly between 100 and 500
C8_Witness ==
    /\ Summarized
    /\ Cardinality(OkIdx) = 5
    /\ Cardinality({j \in OkIdx : results[j].latency_ms = 100}) = 4
    /\ Cardinality({j \in OkIdx : results[j].latency_ms = 500}) = 1
    /\ summary.count = 5
    /\ RatEq(summary.mean_ms, Rat(180, 1))
    /\ RatEq(summary.median_ms, Rat(100, 1))
    /\ RatEq(summary.max_ms, Rat(500, 1))
    /\ RatLT(Rat(100, 1), summary.p95_ms)
    /\ RatLT(summary.p95_ms, Rat(500, 1))

\* the result of a call that exceeded the 60 s budget
TimedOut(r) == ~r.error.isNone /\ r.error.text = "Timeout after 60s"

TimeoutIdx == {j \in 1..Len(results) : TimedOut(results[j])}

\* every timed-out call is a failed trial with the sentinel latency
TimeoutIsSentinelFailure ==
    \A j \in TimeoutIdx :
        ~results[j].success /\ results[j].latency_ms = TimeoutMs

\* C9 as stated: a timed-out call yields success=false and latency 60000,
\* and the summary keeps that latency as a sample, so that max_ms and p99_ms
\* reflect it as the worst case.
C9_TimeoutVisibleInMax ==
    /\ TimeoutIsSentinelFailure
    /\ (Summarized /\ TimeoutIdx # {}) =>
          /\ RatEq(summary.max_ms, Rat(TimeoutMs, 1))
          /\ RatLE(summary.min_ms, summary.p99_ms)
          /\ RatLE(summary.p99_ms, summary.max_ms)

\* C9 amended: a timed-out call yields success=false and latency 60000; it
\* is counted in count and in the denominator of success_rate, but its
\* latency is not a sample of the latency statistics: max_ms and p99_ms are
\* at most the largest latency of a successful trial (0 without one) and
\* stay below the sentinel.
C9_TimeoutCountedNotSampled ==
    /\ TimeoutIsSentinelFailure
    /\ (Summarized /\ TimeoutIdx # {}) =>
          /\ summary.count = Len(results)
          /\ RatEq(summary.success_rate,
                   Rat(Cardinality(OkIdx), Len(results)))
          /\ RatLT(summary.success_rate, Rat(1, 1))
          /\ RatLT(summary.max_ms, Rat(TimeoutMs, 1))
          /\ RatLE(summary.p99_ms, summary.max_ms)
          /\ OkIdx = {} => RatEq(summary.max_ms, Zero)
          /\ OkIdx # {} => \E j \in OkIdx : RatEq(summary.max_ms, OkLat(j))

\* a summary of a timed-out trial next to successful ones
C9_Witness ==
    /\ Summarized /\ TimeoutIdx # {} /\ OkIdx # {}
    /\ RatEq(summary.max_ms, Rat(500, 1))
    /\ summary.count = 3

(***************************************************************************)
(* The workflows.  Each workflow function is straight-line code: a fixed   *)
(* sequence of steps, each timing one adapter call, appending a            *)
(* StepResult, and for some steps returning early when the call failed.    *)
(* A step of the plan is                                                   *)
(*   name      the step_name of its StepResult                             *)
(*   op        the adapter operation it calls                              *)
(*   fatal     the step is followed by "if not r.success: ... return"      *)
(*   message   that early return sets result.error = "Step N failed: ..."  *)
(*   fallback  a failed call is followed by a direct navigate before the   *)
(*             StepResult is made                                          *)
(*   sleep_ms  the time.sleep that follows the step, in ms                 *)
(***************************************************************************)
Step(name, op, fatal, message, fallback, sleep_ms) ==
    [name |-> name, op |-> op, fatal |-> fatal, message |-> message,
     fallback |-> fallback, sleep_ms |-> sleep_ms]

Plan_login ==
    << Step("navigate",        "navigate", TRUE,  TRUE,  FALSE, 0),
       Step("fill_username",   "fill",     TRUE,  TRUE,  FALSE, 0),
       Step("fill_password",   "fill",     TRUE,  TRUE,  FALSE, 0),
       Step("click_submit",    "click",    TRUE,  TRUE,  FALSE, 500),
       Step("verify_snapshot", "snapshot", FALSE, FALSE, FALSE, 0) >>

\* search_extract whose click_author has no fallback navigation
Plan_search_extract_NoFallback ==
    << Step("navigate",         "navigate", TRUE,  FALSE, FALSE, 0),
       Step("snapshot_initial", "snapshot", FALSE, FALSE, FALSE, 0),
       Step("click_author",     "click",    FALSE, FALSE, FALSE, 300),
       Step("snapshot_author",  "snapshot", FALSE, FALSE, FALSE, 0),
       Step("navigate_back",    "navigate", FALSE, FALSE, FALSE, 0),
       Step("snapshot_final",   "snapshot", FALSE, FALSE, FALSE, 0) >>

Plan_search_extract ==
    << Step("navigate",         "navigate", TRUE,  FALSE, FALSE, 0),
       Step("snapshot_initial", "snapshot", FALSE, FALSE, FALSE, 0),
       Step("click_author",     "click",    FALSE, FALSE, TRUE,  300),
       Step("snapshot_author",  "snapshot", FALSE, FALSE, FALSE, 0),
       Step("navigate_back",    "navigate", FALSE, FALSE, FALSE, 0),
       Step("snapshot_final",   "snapshot", FALSE, FALSE, FALSE, 0) >>

\* form_submit with its first fill made fatal, as the fills of login are
Plan_form_submit_FatalFill ==
    << Step("navigate",      "navigate",   TRUE,  FALSE, FALSE, 0),
       Step("fill_name",     "fill",       TRUE,  FALSE, FALSE, 0),
       Step("fill_phone",    "fill",       FALSE, FALSE, FALSE, 0),
       Step("fill_email",    "fill",       FALSE, FALSE, FALSE, 0),
       Step("check_topping", "check",      FALSE, FALSE, FALSE, 0),
       Step("fill_comments", "fill",       FALSE, FALSE, FALSE, 0),
       Step("screenshot",    "screenshot", FALSE, FALSE, FALSE, 0) >>

Plan_form_submit ==
    << Step("navigate",      "navigate",   TRUE,  FALSE, FALSE, 0),
       Step("fill_name",     "fill",       FALSE, FALSE, FALSE, 0),
       Step("fill_phone",    "fill",       FALSE, FALSE, FALSE, 0),
       Step("fill_email",    "fill",       FALSE, FALSE, FALSE, 0),
       Step("check_topping", "check",      FALSE, FALSE, FALSE, 0),
       Step("fill_comments", "fill",       FALSE, FALSE, FALSE, 0),
       Step("screenshot",    "screenshot", FALSE, FALSE, FALSE, 0) >>

\* a turn of the loop that returns when its click and the fallback failed
PageSteps_FatalClick(n) ==
    << Step("click_next_" \o ToString(n),   "click",    TRUE,  FALSE, TRUE, 200),
       Step("snapshot_page" \o ToString(n), "snapshot", FALSE, FALSE, FALSE, 0) >>

\* the two steps of one turn of "for page_num in range(2, pages + 1)"
PageSteps(n) ==
    << Step("click_next_" \o ToString(n),   "click",    FALSE, FALSE, TRUE, 200),
       Step("snapshot_page" \o ToString(n), "snapshot", FALSE, FALSE, FALSE, 0) >>

RECURSIVE PageLoop(_, _)
PageLoop(n, k) == IF n > k THEN <<>> ELSE PageSteps(n) \o PageLoop(n + 1, k)

Plan_pagination(k) ==
    << Step("navigate",       "navigate", TRUE,  FALSE, FALSE, 0),
       Step("snapshot_page1", "snapshot", FALSE, FALSE, FALSE, 0) >>
    \o PageLoop(2, k)

\* WORKFLOWS
Workflows == {"login", "search_extract", "form_submit", "pagination"}

Plan(w, k) ==
    IF w = "login" THEN Plan_login
    ELSE IF w = "search_extract" THEN Plan_search_extract
    ELSE IF w = "form_submit" THEN Plan_form_submit
    ELSE Plan_pagination(k)

\* the test_case each workflow passes to its adapter calls
WorkflowCase(w) ==
    IF w = "login" THEN "login"
    ELSE IF w = "search_extract" THEN "search"
    ELSE IF w = "form_submit" THEN "form"
    ELSE "pagination"

\* a StepResult that does not carry the name of its step
StepResult_Unnamed(step_name, latency_ms, success, error) ==
    [step_name |-> "step", latency_ms |-> latency_ms,
     success |-> success, error |-> error]

StepResult(step_name, latency_ms, success, error) ==
    [step_name |-> step_name, latency_ms |-> latency_ms,
     success |-> success, error |-> error]

\* WorkflowResult(workflow_name=..., tool=tool.name, iteration=iteration)
WorkflowResult(workflow_name, t, iteration) ==
    [workflow_name |-> workflow_name, tool |-> t, iteration |-> iteration,
     steps |-> <<>>, total_latency_ms |-> 0, success |-> TRUE,
     error |-> None]

\* result.success left at the dataclass default
FinalSuccess_Default(steps) == TRUE

\* result.success = all(s.success for s in result.steps)
FinalSuccess(steps) == \A j \in 1..Len(steps) : steps[j].success

\* f"Step {n} failed: {r.error}"
StepFailedMessage(n, error) ==
    Str("Step " \o ToString(n) \o " failed: " \o error.text,
        15 + (IF error.isNone THEN 4 ELSE error.len))

\* result.error on the early return after step n
EarlyError(step, n, r) ==
    IF step.message THEN StepFailedMessage(n, r.error) ELSE None

WorkflowInit ==
    /\ tool \in Tools
    /\ installed \in BOOLEAN
    /\ cold_start = TRUE
    /\ last = NoResult
    /\ ncalls = 0
    /\ calls = <<>>
    /\ RunnerIdle
    /\ StatsIdle
    /\ FnIdle
    /\ ConcIdle
    /\ RunIdle
    /\ wf \in Workflows
    /\ pages \in IF wf = "pagination" THEN 0..MaxPages ELSE {0}
    /\ wpc = 1
    /\ returned = FALSE
    /\ wresult = WorkflowResult(wf, tool, 0)

(***************************************************************************)
(* One step of the running workflow: the adapter call, the fallback        *)
(* navigate when the step has one and the call failed, the StepResult, and *)
(* the return, early when the step is fatal and failed, or after the last  *)
(* step of the plan.  The step's latency is the time its calls took.       *)
(***************************************************************************)
WorkflowStep(envs) ==
    /\ ~returned
    /\ wpc >= 1
    /\ wpc <= Len(Plan(wf, pages))
    /\ \E env1 \in envs, env2 \in envs :
        LET step   == Plan(wf, pages)[wpc]
            first  == Invoke(tool, installed, cold_start, env1, step.op,
                             WorkflowCase(wf), wresult.iteration)
            retry  == step.fallback /\ ~first.result.success
            second == Invoke(tool, installed, first.cold, env2, "navigate",
                             WorkflowCase(wf), wresult.iteration)
            out    == IF retry THEN second ELSE first
            r      == out.result
            spent  == first.result.latency_ms
                        + (IF retry THEN second.result.latency_ms ELSE 0)
            steps  == Append(wresult.steps,
                             StepResult(step.name, spent, r.success, r.error))
            total  == wresult.total_latency_ms + spent
            early  == step.fatal /\ ~r.success
            final  == wpc = Len(Plan(wf, pages))
        IN  /\ retry \/ env2 = env1
            /\ cold_start' = out.cold
            /\ calls' = IF retry
                        THEN calls \o << Call(step.op, WorkflowCase(wf),
                                              wresult.iteration,
                                              first.result.success),
                                         Call("navigate", WorkflowCase(wf),
                                              wresult.iteration,
                                              second.result.success) >>
                        ELSE Append(calls, Call(step.op, WorkflowCase(wf),
                                                wresult.iteration,
                                                first.result.success))
            /\ returned' = (early \/ final)
            /\ wpc' = IF early THEN wpc ELSE wpc + 1
            /\ wresult' =
                 IF early
                 THEN [wresult EXCEPT !.steps = steps,
                                      !.success = FALSE,
                                      !.error = EarlyError(step, wpc, r),
                                      !.total_latency_ms = total]
                 ELSE IF final
                 THEN [wresult EXCEPT !.steps = steps,
                                      !.success = FinalSuccess(steps),
                                      !.total_latency_ms = total]
                 ELSE [wresult EXCEPT !.steps = steps,
                                      !.total_latency_ms =
                                          total + step.sleep_ms]
    /\ UNCHANGED <<tool, installed, wf, pages, outsideWorkflow>>

\* success, failure with exit status 1, timeout
WorkflowEnvs(t) == EnvsOf(t, {7}, {0}, {}, {100})

WorkflowNext == WorkflowStep(WorkflowEnvs(tool))

SpecWorkflow == WorkflowInit /\ [][WorkflowNext]_vars

FirstStepFailed ==
    returned /\ Len(wresult.steps) >= 1 /\ ~wresult.steps[1].success

\* the text of result.error names step 1
ReferencesStep1(error) ==
    /\ ~error.isNone
    /\ error.len >= 15
    /\ SubSeq(error.text, 1, 15) = "Step 1 failed: "

\* C4: in every workflow, when step 1 (navigate) fails the returned
\* WorkflowResult has exactly 1 recorded step, success = false and an error
\* that is not None and references step 1.
C4_FailedNavigateReported ==
    FirstStepFailed =>
        /\ Len(wresult.steps) = 1
        /\ wresult.steps[1].step_name = "navigate"
        /\ wresult.success = FALSE
        /\ ~wresult.error.isNone
        /\ ReferencesStep1(wresult.error)

\* C5: every returned WorkflowResult has success = true exactly when every
\* recorded StepResult has success = true.
C5_SuccessIsAllSteps ==
    returned =>
        (wresult.success
            <=> \A j \in 1..Len(wresult.steps) : wresult.steps[j].success)

\* a complete run of a workflow whose only failed step is in the middle,
\* and which had its click rescued by the fallback navigation
C5_Witness ==
    /\ returned /\ wf = "search_extract"
    /\ Len(wresult.steps) = 6
    /\ ~wresult.success
    /\ wresult.steps[3].success
    /\ Len(calls) = 7
    /\ Cardinality({j \in 1..6 : ~wresult.steps[j].success}) = 1

\* C6 as stated: in every workflow only a failed first navigation stops the
\* workflow; after a successful navigation every step of the plan is
\* attempted and recorded, whichever of them fail.
C6_OnlyNavigateIsFatal ==
    (returned /\ wresult.steps[1].success) =>
        Len(wresult.steps) = Len(Plan(wf, pages))

\* C6 amended: in search_extract, form_submit and pagination only a failed
\* first navigation stops the workflow, and after a successful one every
\* step of the plan is recorded whichever of them fail.  In login a failure
\* of any of the steps 1-4 stops the workflow with that step the last one
\* recorded and error "Step N failed"; only step 5 can fail in a complete
\* run.
C6_FatalSteps ==
    returned =>
        LET steps == wresult.steps
            n     == Len(steps)
        IN  /\ n >= 1
            /\ ~steps[1].success => n = 1
            /\ (wf # "login" /\ steps[1].success) =>
                    n = Len(Plan(wf, pages))
            /\ wf = "login" =>
                  /\ \A j \in 1..(n - 1) : steps[j].success
                  /\ n < 5 => /\ ~steps[n].success
                              /\ ~wresult.success
                              /\ wresult.error.text
                                   = "Step " \o ToString(n) \o " failed: "
                                        \o steps[n].error.text
                  /\ n <= 5

\* a form_submit run that records all 7 steps although its second step
\* failed, and a login run cut short by its second step, are both reached
C6_Witness ==
    /\ returned /\ wf = "form_submit"
    /\ Len(wresult.steps) = 7
    /\ wresult.steps[1].success
    /\ ~wresult.steps[2].success
    /\ wresult.steps[7].success

C6_WitnessLogin ==
    /\ returned /\ wf = "login"
    /\ Len(wresult.steps) = 2
    /\ ~wresult.steps[2].success

\* workflow_login is the one workflow that reports the failed navigate in
\* result.error
C4_LoginReportsStep1 ==
    (FirstStepFailed /\ wf = "login") =>
        /\ Len(wresult.steps) = 1
        /\ wresult.success = FALSE
        /\ ReferencesStep1(wresult.error)


(***************************************************************************)
(* compute_statistics (benchmarks/statistics.py).  raw is                  *)
(* report.single_ops["raw_results"]: the __dict__ of every BenchmarkResult *)
(* the flat runners returned, for every tool and operation.  A Python dict *)
(* is a function on its keys; the keys are the strings the code formats.   *)
(*   spc  collect | returned | raised                                      *)
(*   comparisons  stats["comparisons"] of the returned dict; nothing is    *)
(*                returned when the call raises                            *)
(***************************************************************************)
StatsOps == {"navigate", "snapshot"}

\* the entries of a raw result that compute_statistics reads
RawResult(r) ==
    [tool |-> r.tool, operation |-> r.operation, success |-> r.success,
     latency_ms |-> r.latency_ms]

\* d[k] = v
Put(d, k, v) == [x \in DOMAIN d \cup {k} |-> IF x = k THEN v ELSE d[x]]

\* f"{r['tool']}_{r['operation']}"
ToolOpKey(t, op) == t \o "_" \o op

\* f"{op}_{tool_a}_vs_{tool_b}"
ComparisonKey(op, tool_a, tool_b) == op \o "_" \o tool_a \o "_vs_" \o tool_b

\* the grouping loop: the latencies of the successful results under the
\* key of their tool and operation, in the order of raw
RECURSIVE by_tool_op(_)
by_tool_op(rs) ==
    IF rs = <<>> THEN <<>>
    ELSE LET d   == by_tool_op(SubSeq(rs, 1, Len(rs) - 1))
             r   == rs[Len(rs)]
             key == ToolOpKey(r.tool, r.operation)
         IN  IF r.success
             THEN Put(d, key, (IF key \in DOMAIN d THEN d[key] ELSE <<>>)
                              \o <<r.latency_ms>>)
             ELSE d

\* list(set(...)): the elements of S in an order the hashing picks
Orders(S) ==
    {s \in [1..Cardinality(S) -> S] : \A x \in S : \E j \in DOMAIN s : s[j] = x}

(***************************************************************************)
(* The statistics functions.  A value that the code takes a square root    *)
(* for is kept by its sign and its square, both exact:                     *)
(*   mann_whitney_u  [u2, z_sq]: u2 is twice the U statistic (the ranks of *)
(*                   ties are halves), z_sq the square of z; the p-value   *)
(*                   is 2 * (1 - normal_cdf(|z|)), a decreasing function   *)
(*                   of z_sq, and 1.0 exactly when z_sq = 0                *)
(*   cohens_d        [raised, sign, sq]: d = sign * sqrt(sq)               *)
(***************************************************************************)

\* the number of values of data below x, and not above x
Below(data, x)    == Cardinality({j \in 1..Len(data) : data[j] < x})
NotAbove(data, x) == Cardinality({j \in 1..Len(data) : data[j] <= x})

\* twice the lowest rank of the block of the values equal to x
Rank2_Lowest(combined, x) == 2 * (Below(combined, x) + 1)

\* twice the rank of the value x in the sorted combined list: the block of
\* the values equal to x is combined[i:j], its rank avg_rank = (i + 1 + j) / 2
Rank2(combined, x) == Below(combined, x) + 1 + NotAbove(combined, x)

RECURSIVE RankSum2(_, _)
RankSum2(sample, combined) ==
    IF sample = <<>> THEN 0
    ELSE Rank2(combined, Head(sample)) + RankSum2(Tail(sample), combined)

\* z * z for z = (u - mean_u) / std_u, std_u = sqrt(n1 * n2 * (n1 + n2 + 1) / 12)
ZSquared(u2, n1, n2) ==
    Rat(3 * (u2 - n1 * n2) * (u2 - n1 * n2), n1 * n2 * (n1 + n2 + 1))

\* mann_whitney_u: (0.0, 1.0) on an empty sample; std_u is positive when
\* both samples hold a value, so "if std_u == 0" is never taken then
mann_whitney_u_FirstU(sample1, sample2) ==
    IF sample1 = <<>> \/ sample2 = <<>>
    THEN [u2 |-> 0, z_sq |-> Rat(0, 1)]
    ELSE LET n1   == Len(sample1)
             n2   == Len(sample2)
             u1_2 == RankSum2(sample1, sample1 \o sample2) - n1 * (n1 + 1)
         IN  [u2 |-> u1_2, z_sq |-> ZSquared(u1_2, n1, n2)]

mann_whitney_u(sample1, sample2) ==
    IF sample1 = <<>> \/ sample2 = <<>>
    THEN [u2 |-> 0, z_sq |-> Rat(0, 1)]
    ELSE LET n1   == Len(sample1)
             n2   == Len(sample2)
             u1_2 == RankSum2(sample1, sample1 \o sample2) - n1 * (n1 + 1)
             u2_2 == 2 * n1 * n2 - u1_2
             u_2  == IF u1_2 <= u2_2 THEN u1_2 ELSE u2_2
         IN  [u2 |-> u_2, z_sq |-> ZSquared(u_2, n1, n2)]

\* p_value < 0.05: |z| above the 97.5 % point 1.95996 of the normal
\* distribution, z * z above 3.8415
PBelow005(z_sq) == z_sq.num * 10000 > 38415 * z_sq.den

\* (n - 1) * statistics.variance(sample) times n, 0 for a single value
\* ("if len(sample) > 1 else 0")
SquaredDeviations(sample) ==
    Len(sample) * SumSq(sample) - Sum(sample) * Sum(sample)

Sign(x) == IF x > 0 THEN 1 ELSE IF x < 0 THEN -1 ELSE 0

\* cohens_d: 0.0 on an empty sample; otherwise the pooled variance divides
\* by n1 + n2 - 2, a ZeroDivisionError when both samples hold one value;
\* 0.0 when the pooled standard deviation is 0
cohens_d(sample1, sample2) ==
    IF sample1 = <<>> \/ sample2 = <<>>
    THEN [raised |-> FALSE, sign |-> 0, sq |-> Rat(0, 1)]
    ELSE LET n1     == Len(sample1)
             n2     == Len(sample2)
             diff   == Sum(sample1) * n2 - Sum(sample2) * n1
             pooled == SquaredDeviations(sample1) * n2
                         + SquaredDeviations(sample2) * n1
         IN  IF n1 + n2 - 2 = 0
             THEN [raised |-> TRUE, sign |-> 0, sq |-> Rat(0, 1)]
             ELSE IF pooled = 0
             THEN [raised |-> FALSE, sign |-> 0, sq |-> Rat(0, 1)]
             ELSE [raised |-> FALSE, sign |-> Sign(diff),
                   sq |-> Rat(diff * diff * (n1 + n2 - 2), n1 * n2 * pooled)]

\* _interpret_effect_size: |d| < 0.2, < 0.5, < 0.8
_interpret_effect_size_Medium(d) == "medium"

_interpret_effect_size(d) ==
    IF RatLT(d.sq, Rat(1, 25)) THEN "negligible"
    ELSE IF RatLT(d.sq, Rat(1, 4)) THEN "small"
    ELSE IF RatLT(d.sq, Rat(16, 25)) THEN "medium"
    ELSE "large"

\* compute_confidence_interval at confidence 0.95: the interval
\* mean -+ margin by its centre and the square of the margin
\* z * stdev / sqrt(n), z = 1.96
compute_confidence_interval(data) ==
    IF data = <<>> THEN [mean |-> Rat(0, 1), margin_sq |-> Rat(0, 1)]
    ELSE LET n == Len(data)
         IN  IF n < 2 THEN [mean |-> mean(data), margin_sq |-> Rat(0, 1)]
             ELSE [mean |-> mean(data),
                   margin_sq |-> Rat(196 * 196 * SquaredDeviations(data),
                                     100 * 100 * n * n * (n - 1))]

\* a filter at one standard deviation whatever sigma is
remove_outliers_OneSigma(data, sigma) ==
    IF Len(data) < 3 THEN data
    ELSE LET n == Len(data)
             S == Sum(data)
             V == SquaredDeviations(data)
         IN  IF V = 0 THEN data
             ELSE SelectSeq(data,
                    LAMBDA x : (n * x - S) * (n * x - S) * (n - 1) <= n * V)

\* remove_outliers(data, sigma), sigma an integer: x stays when
\* abs(x - mean) <= sigma * std, compared by the squares
remove_outliers(data, sigma) ==
    IF Len(data) < 3 THEN data
    ELSE LET n == Len(data)
             S == Sum(data)
             V == SquaredDeviations(data)
         IN  IF V = 0 THEN data
             ELSE SelectSeq(data,
                    LAMBDA x : (n * x - S) * (n * x - S) * (n - 1)
                                 <= sigma * sigma * n * V)

\* run_significance_tests: mann_whitney_u does not raise, cohens_d may; the
\* result names the pair and holds the mean of either tool under the key
\* "<tool>_mean"
run_significance_tests(results_a, results_b, tool_a, tool_b) ==
    LET u == mann_whitney_u(results_a, results_b)
        d == cohens_d(results_a, results_b)
    IN  [raised         |-> d.raised,
         comparison     |-> tool_a \o " vs " \o tool_b,
         mann_whitney_u |-> u.u2,
         significant    |-> PBelow005(u.z_sq),
         cohens_d       |-> [sign |-> d.sign, sq |-> d.sq],
         effect_size    |-> _interpret_effect_size(d),
         mean_keys      |-> {tool_a \o "_mean", tool_b \o "_mean"}]

\* the pairwise loops "for op / for i, tool_a / for tool_b in tools[i+1:]"
\* after their first k iterations over (op, i, j), j <= i skipped
RECURSIVE PairwiseLoop(_, _, _, _)
PairwiseLoop(k, operations, tools, groups) ==
    IF k = 0 THEN [raised |-> FALSE, comparisons |-> <<>>]
    ELSE LET prev   == PairwiseLoop(k - 1, operations, tools, groups)
             n      == Len(tools)
             op     == operations[((k - 1) \div (n * n)) + 1]
             a      == (((k - 1) % (n * n)) \div n) + 1
             b      == ((k - 1) % n) + 1
             tool_a == tools[a]
             tool_b == tools[b]
             key_a  == ToolOpKey(tool_a, op)
             key_b  == ToolOpKey(tool_b, op)
         IN  IF prev.raised \/ b <= a THEN prev
             ELSE IF key_a \in DOMAIN groups /\ key_b \in DOMAIN groups
             THEN LET t == run_significance_tests(groups[key_a], groups[key_b],
                                                  tool_a, tool_b)
                  IN  IF t.raised
                      THEN [raised |-> TRUE, comparisons |-> prev.comparisons]
                      ELSE [raised |-> FALSE,
                            comparisons |->
                                Put(prev.comparisons,
                                    ComparisonKey(op, tool_a, tool_b), t)]
             ELSE prev

\* compute_statistics, given the orders of list(set(...))
compute_statistics(rs, tools, operations) ==
    PairwiseLoop(Len(operations) * Len(tools) * Len(tools),
                 operations, tools, by_tool_op(rs))

\* the calls behind the raw results end by themselves
StatsEnvs(t) ==
    {e \in EnvsOf(t, {7}, {0}, {}, {100}) : e.kind = "completed"}

StatsInit ==
    /\ tool = "" /\ installed = FALSE /\ cold_start = TRUE
    /\ last = NoResult /\ ncalls = 0 /\ calls = <<>>
    /\ RunnerIdle
    /\ WorkflowIdle
    /\ FnIdle
    /\ ConcIdle
    /\ RunIdle
    /\ raw = <<>> /\ spc = "collect" /\ comparisons = <<>>

\* run_single_ops_benchmark extends raw_results by a measured result
StatsCollect ==
    /\ spc = "collect"
    /\ Len(raw) < MaxRaw
    /\ \E t \in Tools, op \in StatsOps :
         \E env \in StatsEnvs(t) :
            raw' = Append(raw, RawResult(Invoke(t, TRUE, FALSE, env, op,
                                                MeasuredCase(op), 0).result))
    /\ UNCHANGED <<spc, comparisons, outsideStats>>

\* report.statistics = compute_statistics(report, config)
StatsCompute ==
    /\ spc = "collect"
    /\ \E tools \in Orders({raw[j].tool : j \in 1..Len(raw)}),
          operations \in Orders({raw[j].operation : j \in 1..Len(raw)}) :
         LET out == compute_statistics(raw, tools, operations)
         IN  /\ spc' = IF out.raised THEN "raised" ELSE "returned"
             /\ comparisons' = IF out.raised THEN <<>> ELSE out.comparisons
    /\ UNCHANGED <<raw, outsideStats>>

StatsNext == StatsCollect \/ StatsCompute

SpecStats == StatsInit /\ [][StatsNext]_vars

StatsCalled == spc \in {"returned", "raised"}

HasSuccess(t, op) ==
    \E j \in 1..Len(raw) :
        raw[j].tool = t /\ raw[j].operation = op /\ raw[j].success

\* one comparison per unordered pair of tools with successful samples, none
\* for a tool without
ComparatorComplete ==
    /\ \A op \in StatsOps, a \in Tools, b \in Tools :
         a # b =>
           LET ab == ComparisonKey(op, a, b) \in DOMAIN comparisons
               ba == ComparisonKey(op, b, a) \in DOMAIN comparisons
           IN  /\ (HasSuccess(a, op) /\ HasSuccess(b, op))
                     => ((ab \/ ba) /\ ~(ab /\ ba))
               /\ ab => (HasSuccess(a, op) /\ HasSuccess(b, op))
    /\ DOMAIN comparisons \subseteq
         {ComparisonKey(op, a, b) : op \in StatsOps, a \in Tools, b \in Tools}

\* C10: after compute_statistics, for every operation and every unordered
\* pair of tools that both have at least one successful sample of it,
\* comparisons holds exactly one SignificanceResult (one orientation of the
\* key "{operation}_{toolA}_vs_{toolB}", never both), and it holds no
\* comparison of a tool without a successful sample of the operation.
C10_ComparatorCompleteness ==
    StatsCalled => ComparatorComplete

\* what holds: the comparisons are complete whenever the call returns, and
\* it raises exactly when some compared pair has one sample on either side
C10_CompleteWhenReturned ==
    /\ spc = "returned" => ComparatorComplete
    /\ spc = "raised" =>
         \E op \in StatsOps, a \in Tools, b \in Tools :
            /\ a # b
            /\ {ToolOpKey(a, op), ToolOpKey(b, op)}
                   \subseteq DOMAIN by_tool_op(raw)
            /\ Len(by_tool_op(raw)[ToolOpKey(a, op)]) = 1
            /\ Len(by_tool_op(raw)[ToolOpKey(b, op)]) = 1

\* a returned comparison next to a tool left out for want of a success
C10_WitnessReturned ==
    /\ spc = "returned"
    /\ \E op \in StatsOps, a \in Tools, b \in Tools, c \in Tools :
         /\ ComparisonKey(op, a, b) \in DOMAIN comparisons
         /\ c \notin {a, b}
         /\ \E j \in 1..Len(raw) : raw[j].tool = c /\ raw[j].operation = op
         /\ ~HasSuccess(c, op)


(***************************************************************************)
(* One call of a statistics function on bounded inputs.  The samples are   *)
(* short lists over a few values, pairs of separated samples, or a run of  *)
(* equal values followed by a few larger ones.                             *)
(***************************************************************************)
SampleValues == {1, 2, 3}
LowValues    == {1, 2}
HighValues   == {4, 5}
TailValues   == {1, 50}
Percents     == {0, 50, 95, 100, 150}
Sigma        == 3

SeqsUpTo(V, n) == UNION {[1..k -> V] : k \in 0..n}

Zeros(k) == [j \in 1..k |-> 0]

FnInit ==
    /\ tool = "" /\ installed = FALSE /\ cold_start = TRUE
    /\ last = NoResult /\ ncalls = 0 /\ calls = <<>>
    /\ RunnerIdle
    /\ WorkflowIdle
    /\ StatsIdle
    /\ ConcIdle
    /\ RunIdle
    /\ \/ /\ sampleA \in SeqsUpTo(SampleValues, MaxLen)
          /\ sampleB \in SeqsUpTo(SampleValues, MaxLen)
       \/ /\ sampleA \in [1..SeparatedLen -> LowValues]
          /\ sampleB \in [1..SeparatedLen -> HighValues]
       \/ /\ \E k \in 0..MaxZeros, tail \in SeqsUpTo(TailValues, 2) :
               sampleA = Zeros(k) \o tail
          /\ sampleB = <<>>
    /\ fpc = "input"
    /\ fout = <<>>

Call_percentile ==
    /\ fpc = "input"
    /\ \E p \in Percents :
         fout' = [p |-> p, value |-> _percentile(sampleA, p)]
    /\ fpc' = "_percentile"
    /\ UNCHANGED <<sampleA, sampleB, outsideFn>>

Call_mann_whitney_u ==
    /\ fpc = "input"
    /\ fout' = mann_whitney_u(sampleA, sampleB)
    /\ fpc' = "mann_whitney_u"
    /\ UNCHANGED <<sampleA, sampleB, outsideFn>>

Call_cohens_d ==
    /\ fpc = "input"
    /\ fout' = cohens_d(sampleA, sampleB)
    /\ fpc' = "cohens_d"
    /\ UNCHANGED <<sampleA, sampleB, outsideFn>>

Call_compute_confidence_interval ==
    /\ fpc = "input"
    /\ fout' = compute_confidence_interval(sampleA)
    /\ fpc' = "compute_confidence_interval"
    /\ UNCHANGED <<sampleA, sampleB, outsideFn>>

Call_remove_outliers ==
    /\ fpc = "input"
    /\ fout' = remove_outliers(sampleA, Sigma)
    /\ fpc' = "remove_outliers"
    /\ UNCHANGED <<sampleA, sampleB, outsideFn>>

Call_run_significance_tests ==
    /\ fpc = "input"
    /\ fout' = run_significance_tests(sampleA, sampleB, "a", "b")
    /\ fpc' = "run_significance_tests"
    /\ UNCHANGED <<sampleA, sampleB, outsideFn>>

FnNext ==
    \/ Call_percentile
    \/ Call_mann_whitney_u
    \/ Call_cohens_d
    \/ Call_compute_confidence_interval
    \/ Call_remove_outliers
    \/ Call_run_significance_tests

SpecFn == FnInit /\ [][FnNext]_vars

NeutralU == [u2 |-> 0, z_sq |-> Rat(0, 1)]
IsZeroD(d) == ~d.raised /\ d.sign = 0 /\ d.sq = Rat(0, 1)
BothSingle == Len(sampleA) = 1 /\ Len(sampleB) = 1
AnEmptySample == sampleA = <<>> \/ sampleB = <<>>

EmptySafe ==
    /\ (fpc = "_percentile" /\ sampleA = <<>>) => fout.value = Rat(0, 1)
    /\ (fpc = "mann_whitney_u" /\ AnEmptySample) => fout = NeutralU
    /\ (fpc = "cohens_d" /\ AnEmptySample) => IsZeroD(fout)
    /\ (fpc = "compute_confidence_interval" /\ sampleA = <<>>)
          => fout = [mean |-> Rat(0, 1), margin_sq |-> Rat(0, 1)]
    /\ (fpc = "compute_confidence_interval" /\ Len(sampleA) = 1)
          => /\ fout.mean = Rat(sampleA[1], 1)
             /\ fout.margin_sq = Rat(0, 1)

ZeroPooled ==
    /\ ~AnEmptySample
    /\ SquaredDeviations(sampleA) = 0 /\ SquaredDeviations(sampleB) = 0

\* C11: the statistics functions never raise on degenerate input: on an
\* empty sample _percentile returns 0, mann_whitney_u (0.0, 1.0), cohens_d
\* 0.0 and compute_confidence_interval (0.0, 0.0); cohens_d returns 0 for
\* non-empty samples with zero pooled standard deviation or with a single
\* element each, and compute_confidence_interval (mean, mean) for n < 2.
C11_DegenerateInputsAreNeutral ==
    /\ EmptySafe
    /\ (fpc = "cohens_d" /\ (ZeroPooled \/ (~AnEmptySample /\ BothSingle)))
          => IsZeroD(fout)

\* what holds of the degenerate inputs: all of the above but for two
\* samples of one value each, where cohens_d raises
C11_NeutralButForSingles ==
    /\ EmptySafe
    /\ (fpc = "cohens_d" /\ ZeroPooled /\ ~BothSingle) => IsZeroD(fout)
    /\ (fpc = "cohens_d" /\ ~AnEmptySample) => (fout.raised <=> BothSingle)

\* C12: for all samples A and B, mann_whitney_u(A, B) and
\* mann_whitney_u(B, A) return the same U and the same p-value, and
\* cohens_d(A, B) = -cohens_d(B, A).
C12_Symmetry ==
    /\ fpc = "mann_whitney_u" =>
         LET swapped == mann_whitney_u(sampleB, sampleA)
         IN  swapped.u2 = fout.u2 /\ RatEq(swapped.z_sq, fout.z_sq)
    /\ fpc = "cohens_d" =>
         LET swapped == cohens_d(sampleB, sampleA)
         IN  /\ ~fout.raised /\ ~swapped.raised
             /\ swapped.sign = -fout.sign
             /\ RatEq(swapped.sq, fout.sq)

\* what holds: the symmetry of mann_whitney_u, and of cohens_d whenever
\* it returns; the two orders raise together
C12_SymmetryWhenReturned ==
    /\ fpc = "mann_whitney_u" =>
         LET swapped == mann_whitney_u(sampleB, sampleA)
         IN  swapped.u2 = fout.u2 /\ RatEq(swapped.z_sq, fout.z_sq)
    /\ fpc = "cohens_d" =>
         LET swapped == cohens_d(sampleB, sampleA)
         IN  /\ swapped.raised = fout.raised
             /\ ~fout.raised =>
                  (swapped.sign = -fout.sign /\ RatEq(swapped.sq, fout.sq))

C12_WitnessAsymmetric ==
    /\ fpc = "cohens_d" /\ ~fout.raised /\ fout.sign = 1
    /\ cohens_d(sampleB, sampleA).sign = -1

\* C13: remove_outliers is idempotent for sigma 3.0: a second pass drops
\* no point that survived the first.
C13_OutlierFilterIdempotent ==
    fpc = "remove_outliers" => remove_outliers(fout, Sigma) = fout

\* the values of sub, in order
Flatten(sub) == [j \in 1..Len(sub) |-> sub[j][1]]

KeptInOrder(out, data) ==
    \E keep \in SUBSET (1..Len(data)) :
        out = Flatten(SelectSeq([j \in 1..Len(data) |->
                                    IF j \in keep THEN <<data[j]>> ELSE <<>>],
                                LAMBDA e : e # <<>>))

\* C13 amended: remove_outliers(data, 3.0) is one pass: it returns the
\* points of data, in order, without some of them; it returns data itself
\* when data has at most 10 points ((n - 1) * (n - 1) <= 9 * n: no point
\* of so few lies more than 3 sample standard deviations from their mean)
\* or when all points are
\* equal; a second pass works from the mean and deviation of the
\* survivors, drops nothing when the first pass dropped nothing, and can
\* only drop further points.
C13_OutlierFilterOnePass ==
    fpc = "remove_outliers" =>
        /\ KeptInOrder(fout, sampleA)
        /\ (Len(sampleA) - 1) * (Len(sampleA) - 1)
              <= Sigma * Sigma * Len(sampleA) => fout = sampleA
        /\ SquaredDeviations(sampleA) = 0 => fout = sampleA
        /\ fout = sampleA => remove_outliers(fout, Sigma) = fout
        /\ Len(remove_outliers(fout, Sigma)) <= Len(fout)

\* a first pass that drops a point and a second pass that drops another
C13_Witness ==
    /\ fpc = "remove_outliers"
    /\ Len(fout) < Len(sampleA)
    /\ Len(remove_outliers(fout, Sigma)) < Len(fout)

\* C14: _percentile is monotone in p: for 0 <= p1 < p2 <= 100,
\* _percentile(data, p1) <= _percentile(data, p2); for non-empty data the
\* result lies between min(data) and max(data), p = 0 gives the minimum and
\* p = 100 the maximum.
C14_PercentileMonotone ==
    (fpc = "_percentile" /\ fout.p <= 100) =>
        /\ ~fout.value.raised
        /\ \A p2 \in Percents :
              (fout.p < p2 /\ p2 <= 100) =>
                  LET upper == _percentile(sampleA, p2)
                  IN  ~upper.raised /\ RatLE(fout.value, upper)
        /\ sampleA # <<>> =>
              /\ RatLE(min(sampleA), fout.value)
              /\ RatLE(fout.value, max(sampleA))
              /\ fout.p = 0 => RatEq(fout.value, min(sampleA))
              /\ fout.p = 100 => RatEq(fout.value, max(sampleA))

\* an interpolated median of an unsorted list, strictly below a higher
\* percentile
C14_Witness ==
    /\ fpc = "_percentile" /\ fout.p = 50
    /\ sampleA = <<3, 1>>
    /\ RatEq(fout.value, Rat(2, 1))
    /\ RatLT(fout.value, _percentile(sampleA, 95))

Separated ==
    /\ Len(sampleA) = SeparatedLen /\ Len(sampleB) = SeparatedLen
    /\ \A a \in 1..Len(sampleA), b \in 1..Len(sampleB) :
          sampleA[a] < sampleB[b]

\* C15: for two samples of 5 values each with every value of the first
\* below every value of the second, mann_whitney_u returns U = 0 with
\* p_value < 0.05, run_significance_tests sets significant, and the
\* effect_size is "large" when |cohens_d| > 0.8.
C15_SeparatedSamplesSignificant ==
    /\ (fpc = "mann_whitney_u" /\ Separated) =>
          fout.u2 = 0 /\ PBelow005(fout.z_sq)
    /\ (fpc = "run_significance_tests" /\ Separated) =>
          /\ ~fout.raised
          /\ fout.mann_whitney_u = 0
          /\ fout.significant
          /\ RatLT(Rat(16, 25), fout.cohens_d.sq)
                => fout.effect_size = "large"

\* separated samples that vary, with a large negative effect
C15_Witness ==
    /\ fpc = "run_significance_tests" /\ Separated
    /\ sampleA[1] # sampleA[2] /\ sampleB[1] # sampleB[2]
    /\ fout.significant /\ fout.mann_whitney_u = 0
    /\ fout.cohens_d.sign = -1
    /\ RatLT(Rat(16, 25), fout.cohens_d.sq)
    /\ fout.effect_size = "large"


(***************************************************************************)
(* test_concurrent_requests (benchmarks/concurrency.py).  A worker is a    *)
(* future of the pool: it runs _run_single_request from its submission on, *)
(* in parallel with the calling thread and the other workers.              *)
(*   workers[k].st  running | done | collected                             *)
(*   cpc            submit | collect | returned                            *)
(***************************************************************************)
CONCURRENT_URLS ==
    <<"https://example.com", "https://httpbin.org/get",
      "https://quotes.toscrape.com/", "https://the-internet.herokuapp.com/",
      "https://jsonplaceholder.typicode.com/">>

\* CONCURRENT_URLS[:parallel_count]
UrlsOf(n) ==
    SubSeq(CONCURRENT_URLS, 1,
           IF n < Len(CONCURRENT_URLS) THEN n ELSE Len(CONCURRENT_URLS))

\* ThreadPoolExecutor(max_workers=parallel_count)
max_workers == parallel_count

\* what perf_counter adds around the adapter call in _run_single_request,
\* and around the pool in test_concurrent_requests
CallOverheadMs == 1

Worker(url, st, success, elapsed, raised) ==
    [url |-> url, st |-> st, success |-> success, elapsed |-> elapsed,
     raised |-> raised]

ConcurrencyResult(t, parallel_requests, total_time_ms, requests_per_second, success_rate, individual_times_ms) ==
    [tool |-> t, parallel_requests |-> parallel_requests,
     total_time_ms |-> total_time_ms,
     requests_per_second |-> requests_per_second,
     success_rate |-> success_rate,
     individual_times_ms |-> individual_times_ms]

\* sum(results): the number of True flags
RECURSIVE CountTrue(_)
CountTrue(flags) ==
    IF flags = <<>> THEN 0
    ELSE (IF Head(flags) THEN 1 ELSE 0) + CountTrue(Tail(flags))

\* a rate that reads the first collected flag only
SuccessRate_FirstOnly(flags) ==
    IF flags = <<>> THEN Rat(0, 1)
    ELSE Rat(IF Head(flags) THEN 1 ELSE 0, 1)

\* sum(results) / len(results) if results else 0
SuccessRate(flags) ==
    IF flags = <<>> THEN Rat(0, 1) ELSE Rat(CountTrue(flags), Len(flags))

\* parallel_count / (total_time / 1000) if total_time > 0 else 0
RequestsPerSecond(n, total_time_ms) ==
    IF total_time_ms > 0 THEN Rat(n * 1000, total_time_ms) ELSE Rat(0, 1)

\* an entry that takes every collected worker for a success
Collected_Blind(w) == [success |-> TRUE, elapsed |-> w.elapsed]

\* the entry a collected future adds to results and times:
\* try: success, elapsed = future.result(timeout=60)
\* except Exception: False, 0.  as_completed hands over finished futures
\* only, so result() returns or re-raises at once and its timeout never
\* expires.
Collected(w) ==
    IF w.raised THEN [success |-> FALSE, elapsed |-> 0]
    ELSE [success |-> w.success, elapsed |-> w.elapsed]

\* the largest elapsed time of the workers
RECURSIVE LongestMs(_)
LongestMs(ws) ==
    IF ws = <<>> THEN 0
    ELSE LET rest == LongestMs(Tail(ws))
         IN  IF Head(ws).elapsed > rest THEN Head(ws).elapsed ELSE rest

ConcStart ==
    /\ workers = <<>> /\ cpc = "submit"
    /\ cresults = <<>> /\ times = <<>> /\ cresult = <<>>

ConcInit ==
    /\ tool \in Tools
    /\ installed = TRUE
    /\ cold_start = TRUE
    /\ last = NoResult /\ ncalls = 0 /\ calls = <<>>
    /\ RunnerIdle
    /\ WorkflowIdle
    /\ StatsIdle
    /\ FnIdle
    /\ RunIdle
    /\ parallel_count \in 1..MaxParallel
    /\ ConcStart

\* executor.submit(_run_single_request, tool, url) for the next url; the
\* dict of futures is complete before as_completed is entered
ConcSubmit ==
    /\ cpc = "submit"
    /\ LET urls == UrlsOf(parallel_count)
           k    == Len(workers) + 1
       IN  /\ k <= Len(urls)
           /\ workers' = Append(workers,
                                Worker(urls[k], "running", FALSE, 0, FALSE))
           /\ cpc' = IF k = Len(urls) THEN "collect" ELSE "submit"
    /\ UNCHANGED <<parallel_count, cresults, times, cresult, tool, installed,
                   cold_start, outsideConc>>

\* _run_single_request in a worker: tool.navigate(url) returns, or raises
\* (the adapter call as one step; WorkerRead and WorkerWrite split it at the
\* cold-start flag)
WorkerRun(envs, raising) ==
    /\ cpc \in {"submit", "collect"}
    /\ \E k \in 1..Len(workers) :
         /\ workers[k].st = "running"
         /\ \/ \E env \in envs :
                 LET r == Invoke(tool, installed, cold_start, env, "navigate",
                                 "default", 0)
                 IN  /\ workers' = [workers EXCEPT ![k] =
                            Worker(@.url, "done", r.result.success,
                                   r.result.latency_ms + CallOverheadMs,
                                   FALSE)]
                     /\ cold_start' = r.cold
            \/ /\ TRUE \in raising
               /\ workers' = [workers EXCEPT ![k] =
                                 Worker(@.url, "done", FALSE, 0, TRUE)]
               /\ UNCHANGED cold_start
    /\ UNCHANGED <<parallel_count, cpc, cresults, times, cresult, tool,
                   installed, outsideConc>>

\* one turn of "for future in as_completed(futures)"
ConcCollect ==
    /\ cpc = "collect"
    /\ \E k \in 1..Len(workers) :
         /\ workers[k].st = "done"
         /\ workers' = [workers EXCEPT ![k].st = "collected"]
         /\ cresults' = Append(cresults, Collected(workers[k]).success)
         /\ times' = Append(times, Collected(workers[k]).elapsed)
    /\ UNCHANGED <<parallel_count, cpc, cresult, tool, installed, cold_start,
                   outsideConc>>

\* the loop is over when every future was handed over; the pool shuts down
\* (all its workers are done) and the result is built
ConcReturn ==
    /\ cpc = "collect"
    /\ \A k \in 1..Len(workers) : workers[k].st = "collected"
    /\ LET total_time == LongestMs(workers) + CallOverheadMs
       IN  cresult' = ConcurrencyResult(tool, parallel_count, total_time,
                          RequestsPerSecond(parallel_count, total_time),
                          SuccessRate(cresults), times)
    /\ cpc' = "returned"
    /\ UNCHANGED <<parallel_count, workers, cresults, times, tool, installed,
                   cold_start, outsideConc>>

\* the calls of the workers: the command exits with status 0 after 100 ms,
\* or runs into the adapter's timeout (or the worker raises, in WorkerRun)
ConcEnvs(t) ==
    {e \in EnvsOf(t, {7}, {0}, {}, {100}) :
        e.socket /\ e.returncode = 0 /\ e.reply \in {"none", "result"}}

ConcNext ==
    \/ ConcSubmit
    \/ WorkerRun(ConcEnvs(tool), BOOLEAN)
    \/ ConcCollect
    \/ ConcReturn

SpecConcurrent == ConcInit /\ [][ConcNext]_vars


ConcReturned == cpc = "returned"

Distinct(ws) ==
    \A a \in 1..Len(ws), b \in 1..Len(ws) : a # b => ws[a].url # ws[b].url

\* C16: for every parallel_count >= 1, test_concurrent_requests dispatches
\* exactly parallel_count navigate calls, each to a distinct URL, on a pool
\* of exactly parallel_count workers, and the returned ConcurrencyResult
\* holds exactly parallel_count entries in individual_times_ms.
C16_DispatchesParallelCount ==
    ConcReturned =>
        /\ Len(workers) = parallel_count
        /\ Distinct(workers)
        /\ max_workers = parallel_count
        /\ Len(cresult.individual_times_ms) = parallel_count

\* what holds: one call per URL of CONCURRENT_URLS[:parallel_count], which
\* is parallel_count calls up to the five URLs of the list
C16_DispatchesOnePerUrl ==
    ConcReturned =>
        /\ Len(workers) = Len(UrlsOf(parallel_count))
        /\ \A k \in 1..Len(workers) : workers[k].url = CONCURRENT_URLS[k]
        /\ Distinct(workers)
        /\ Len(cresult.individual_times_ms) = Len(workers)
        /\ parallel_count <= Len(CONCURRENT_URLS)
              => Len(workers) = parallel_count
        /\ cresult.parallel_requests = parallel_count

C16_WitnessFive ==
    /\ ConcReturned /\ parallel_count = 5 /\ Len(workers) = 5
    /\ Len(cresult.individual_times_ms) = 5

\* the worker's call threw, or took longer than the 60 s of the timeout
Threw(w)    == w.raised
Exceeded(w) == ~w.raised /\ w.elapsed > TimeoutMs

CountWorkers(P(_)) == Cardinality({k \in 1..Len(workers) : P(workers[k])})

\* the collected entries with success False and latency 0
ZeroFailures ==
    Cardinality({j \in 1..Len(cresults) : ~cresults[j] /\ times[j] = 0})

Succeeded(w) == ~w.raised /\ w.success

\* C17: a worker whose call throws or exceeds the 60 s per-worker timeout
\* is counted as one failed trial with recorded latency 0: it adds nothing
\* to the success count, it is counted in the denominator of the success
\* rate, and a ConcurrencyResult is still returned.
C17_ThrowOrTimeoutIsZeroFailure ==
    ConcReturned =>
        /\ ZeroFailures >= CountWorkers(Threw) + CountWorkers(Exceeded)
        /\ CountTrue(cresults) = CountWorkers(Succeeded)
        /\ Len(cresults) = Len(workers)
        /\ cresult.success_rate = Rat(CountTrue(cresults), Len(workers))

\* what holds: a worker that threw is a failure of latency 0, a worker
\* that outlasted the timeout is a failure with its own elapsed time
C17_ThrowIsZeroFailure ==
    ConcReturned =>
        /\ ZeroFailures = CountWorkers(Threw)
        /\ \A k \in 1..Len(workers) :
              Exceeded(workers[k]) =>
                 \E j \in 1..Len(times) :
                    ~cresults[j] /\ times[j] = workers[k].elapsed
        /\ CountTrue(cresults) = CountWorkers(Succeeded)
        /\ Len(cresults) = Len(workers)
        /\ cresult.success_rate = Rat(CountTrue(cresults), Len(workers))

CountIn(seq, v) == Cardinality({j \in 1..Len(seq) : seq[j] = v})

WorkerTimes == [k \in 1..Len(workers) |-> Collected(workers[k]).elapsed]

\* C18: for every order in which the workers complete, the returned
\* success_rate is (workers that returned success) / (workers),
\* individual_times_ms is the same multiset of per-worker latencies, and
\* requests_per_second is parallel_count / total time in seconds.
C18_OrderIndependent ==
    ConcReturned =>
        /\ cresult.success_rate
              = Rat(CountWorkers(Succeeded), Len(workers))
        /\ Len(cresult.individual_times_ms) = Len(workers)
        /\ \A k \in 1..Len(workers) :
              CountIn(cresult.individual_times_ms, WorkerTimes[k])
                 = CountIn(WorkerTimes, WorkerTimes[k])
        /\ cresult.total_time_ms > 0
        /\ cresult.requests_per_second
              = Rat(parallel_count * 1000, cresult.total_time_ms)

\* three workers, the first fails and is collected last: 2/3
C18_Witness ==
    /\ ConcReturned /\ parallel_count = 3
    /\ ~workers[1].success /\ workers[2].success /\ workers[3].success
    /\ cresults = <<TRUE, TRUE, FALSE>>
    /\ cresult.success_rate = Rat(2, 3)
    /\ cresult.requests_per_second = Rat(3000, cresult.total_time_ms)

(***************************************************************************)
(* run_all_benchmarks (benchmark.py) with the suites it calls:             *)
(* run_single_ops_benchmark, run_workflow_benchmark,                       *)
(* run_resource_benchmark, run_concurrency_benchmark and                   *)
(* run_feature_parity_test, then compute_statistics and the close() of the *)
(* tools.  The flat runners, the workflows and test_concurrent_requests    *)
(* are the actions above; the actions here are the loops around them.      *)
(*   backend[t]  missing      the command of t is not on this machine      *)
(*               unreachable  it is, and its backend process does not      *)
(*                            answer (FGP: the daemon socket is not there) *)
(*               ready        it is, and the backend answers               *)
(*   rtools      the adapter instances in tools, each with its _cold_start *)
(*   suite       init, the suite that runs, statistics, close, done, or    *)
(*               raised when compute_statistics raised                     *)
(*   rk, rj      the tool and the operation (workflow, level, feature) the *)
(*               loops of the suite are at; i is the loop variable of      *)
(*               "for i in range(iterations)" of run_workflow_benchmark    *)
(***************************************************************************)
BackendStates == {"missing", "unreachable", "ready"}

\* config.min_iterations and config.warmup_iterations
min_iterations == 1
warmup_iterations == 1

\* workflow_pagination(tool, iteration, pages=5)
DefaultPages == 5

\* the order in which run_all_benchmarks constructs the adapters
ToolOrder == <<"fgp_browser", "agent_browser", "playwright_mcp">>

\* is_available(): self._cli_path (self._npx_path) is not None
is_available(b, t) == b[t] # "missing"

\* an adapter instance after __init__
Instance(t) == [name |-> t, _cold_start |-> TRUE]

\* "if x.is_available(): tools.append(x)" for the three adapters in turn
AvailableTools(b) ==
    LET present == SelectSeq(ToolOrder, LAMBDA t : is_available(b, t))
    IN  [k \in 1..Len(present) |-> Instance(present[k])]

\* suites or ["single_ops", "workflows", "resources", "concurrency",
\* "feature_parity"], and the "if ... in suites_to_run" blocks in their order
suites_to_run ==
    <<"single_ops", "workflows", "resources", "concurrency",
      "feature_parity">>

AfterSuite(s) ==
    LET k == CHOOSE j \in 1..Len(suites_to_run) : suites_to_run[j] = s
    IN  IF k < Len(suites_to_run) THEN suites_to_run[k + 1] ELSE "statistics"

\* the calls of run_single_ops_benchmark for one tool, in their order
SingleOps == <<"navigate", "snapshot", "screenshot", "click", "fill">>

\* WORKFLOWS.items()
WORKFLOWS == <<"login", "search_extract", "form_submit", "pagination">>

\* a descending sweep
parallel_levels_Descending == <<5, 3, 2, 1>>

\* parallel_levels = [1, 2, 3, 5]
parallel_levels == <<1, 2, 3, 5>>

\* FEATURE_TESTS: whether the feature has a setup navigation, and the
\* adapter calls of its test
Feature(name, setup, test) == [name |-> name, setup |-> setup, test |-> test]

FEATURE_TESTS ==
    << Feature("navigate", FALSE, <<"navigate">>),
       Feature("snapshot", TRUE, <<"snapshot">>),
       Feature("screenshot", TRUE, <<"screenshot">>),
       Feature("click", TRUE, <<"click">>),
       Feature("fill", TRUE, <<"fill">>),
       Feature("select", TRUE, <<"select">>),
       Feature("check", TRUE, <<"check">>),
       Feature("hover", TRUE, <<"hover">>),
       Feature("scroll", TRUE, <<"scroll">>),
       Feature("press", TRUE, <<"press">>),
       Feature("press_combo", TRUE, <<"fill", "press_combo">>),
       Feature("upload", TRUE, <<"upload">>) >>

\* one result the report holds: a measured single operation, a workflow
\* run, a concurrency level (n its parallel_count) or a feature test
Trial(s, t, operation, n, success, latency_ms) ==
    [suite |-> s, tool |-> t, operation |-> operation, n |-> n,
     success |-> success, latency_ms |-> latency_ms]

\* what a backend in state b[t] answers to a call: a ready backend exits
\* with status 0 after 100 ms (Playwright MCP: with a result line); an
\* unreachable FGP daemon has no socket, an unreachable agent-browser
\* exits with status 1 and a message, an unreachable MCP server prints no
\* response line
RunEnvs(b, t) ==
    IF b[t] = "ready"
    THEN IF t = "playwright_mcp"
         THEN {Env("completed", TRUE, 0, 7, 0, 0, 100, "result", 3)}
         ELSE {Env("completed", TRUE, 0, 7, 0, 0, 100, "none", 0)}
    ELSE IF t = "fgp_browser"
    THEN {Env("completed", FALSE, 0, 0, 0, 0, 0, "none", 0)}
    ELSE IF t = "agent_browser"
    THEN {Env("completed", TRUE, 1, 0, 7, 0, 100, "none", 0)}
    ELSE {Env("completed", TRUE, 0, 0, 0, 0, 100, "none", 0)}

\* the adapter calls ops made one after another on adapter t: the result
\* of the last one and the _cold_start they leave
RECURSIVE CallAll(_, _, _, _)
CallAll(t, cold, env, ops) ==
    IF Len(ops) = 1
    THEN Invoke(t, TRUE, cold, env, ops[1], "default", 0)
    ELSE LET before == CallAll(t, cold, env, SubSeq(ops, 1, Len(ops) - 1))
         IN  Invoke(t, TRUE, before.cold, env, ops[Len(ops)], "default", 0)

RunInit ==
    /\ tool = "" /\ installed = FALSE /\ cold_start = TRUE
    /\ last = NoResult /\ ncalls = 0 /\ calls = <<>>
    /\ RunnerIdle
    /\ WorkflowIdle
    /\ StatsIdle
    /\ FnIdle
    /\ ConcIdle
    /\ backend \in [Tools -> BackendStates]
    /\ rtools = <<>>
    /\ suite = "init"
    /\ rk = 0 /\ rj = 0
    /\ report = <<>>
    /\ invoked = {}

\* lines 185-214: the adapters are constructed and the available ones
\* kept; "if not tools: return report"
RunDiscover ==
    /\ suite = "init"
    /\ rtools' = AvailableTools(backend)
    /\ suite' = IF rtools' = <<>> THEN "done" ELSE suites_to_run[1]
    /\ rk' = 1 /\ rj' = 1
    /\ UNCHANGED <<backend, report, invoked, adapterVars, runnerVars, calls,
                   workflowVars, statsVars, fnVars, concVars>>

\* run_single_ops_benchmark calls the next benchmark_* function on the
\* tool it is at
RunStartOp ==
    /\ suite = "single_ops" /\ pc = "idle"
    /\ tool' = rtools[rk].name
    /\ installed' = TRUE
    /\ cold_start' = rtools[rk]._cold_start
    /\ runner' = SingleOps[rj]
    /\ iterations' = min_iterations
    /\ warmup' = warmup_iterations
    /\ pc' = IF HasSetup(SingleOps[rj]) THEN "setup"
             ELSE EnterWarmup(warmup_iterations, min_iterations)
    /\ i' = 0
    /\ results' = <<>>
    /\ calls' = <<>>
    /\ summary' = NoSummary
    /\ UNCHANGED <<last, ncalls, workflowVars, statsVars, fnVars, concVars,
                   runVars>>

\* results["raw_results"].extend(...) after the summary; then the next
\* operation, the next tool, or the next suite
RunEndOp ==
    /\ suite = "single_ops" /\ pc = "summarized"
    /\ report' = report \o
          [j \in 1..Len(results) |->
              Trial("single_ops", results[j].tool, results[j].operation,
                    results[j].iteration, results[j].success,
                    results[j].latency_ms)]
    /\ invoked' = IF calls = <<>> THEN invoked ELSE invoked \cup {tool}
    /\ rtools' = [rtools EXCEPT ![rk]._cold_start = cold_start]
    /\ runner' = "" /\ iterations' = 0 /\ warmup' = 0 /\ pc' = "idle"
    /\ i' = 0 /\ results' = <<>> /\ summary' = NoSummary
    /\ IF rj < Len(SingleOps)
       THEN /\ rj' = rj + 1
            /\ UNCHANGED <<rk, suite>>
       ELSE IF rk < Len(rtools)
       THEN /\ rk' = rk + 1 /\ rj' = 1
            /\ UNCHANGED suite
       ELSE /\ rk' = 1 /\ rj' = 1
            /\ suite' = AfterSuite("single_ops")
    /\ UNCHANGED <<backend, adapterVars, calls, workflowVars, statsVars,
                   fnVars, concVars>>

\* wr = workflow_fn(tool, i) is called
RunStartWorkflow ==
    /\ suite = "workflows" /\ wpc = 0
    /\ tool' = rtools[rk].name
    /\ installed' = TRUE
    /\ cold_start' = rtools[rk]._cold_start
    /\ wf' = WORKFLOWS[rj]
    /\ pages' = IF WORKFLOWS[rj] = "pagination" THEN DefaultPages ELSE 0
    /\ wpc' = 1
    /\ returned' = FALSE
    /\ wresult' = WorkflowResult(WORKFLOWS[rj], rtools[rk].name, i)
    /\ calls' = <<>>
    /\ UNCHANGED <<last, ncalls, runnerVars, statsVars, fnVars, concVars,
                   runVars>>

\* results["raw_results"].append(...) for the WorkflowResult returned; then
\* the next iteration, the next tool, the next workflow, or the next suite
RunEndWorkflow ==
    /\ suite = "workflows" /\ returned
    /\ report' = Append(report,
                        Trial("workflows", wresult.tool,
                              wresult.workflow_name, wresult.iteration,
                              wresult.success, wresult.total_latency_ms))
    /\ invoked' = IF calls = <<>> THEN invoked ELSE invoked \cup {tool}
    /\ rtools' = [rtools EXCEPT ![rk]._cold_start = cold_start]
    /\ wf' = "" /\ pages' = 0 /\ wpc' = 0 /\ returned' = FALSE
    /\ wresult' = [steps |-> <<>>]
    /\ IF i + 1 < min_iterations
       THEN /\ i' = i + 1
            /\ UNCHANGED <<rk, rj, suite>>
       ELSE IF rk < Len(rtools)
       THEN /\ i' = 0 /\ rk' = rk + 1
            /\ UNCHANGED <<rj, suite>>
       ELSE IF rj < Len(WORKFLOWS)
       THEN /\ i' = 0 /\ rk' = 1 /\ rj' = rj + 1
            /\ UNCHANGED suite
       ELSE /\ i' = 0 /\ rk' = 1 /\ rj' = 1
            /\ suite' = AfterSuite("workflows")
    /\ UNCHANGED <<backend, adapterVars, runner, iterations, warmup, pc,
                   results, summary, calls, statsVars, fnVars, concVars>>

\* run_resource_benchmark for the tool it is at.  start() leaves
\* _cold_start True; FGP's start() stops and restarts the daemon, whose pid
\* file and socket are there afterwards or not; get_pid() is the pid read
\* from the pid file for FGP and None for the other adapters.  With a pid:
\* navigate, navigate and snapshot, none of them a recorded trial.
RunResources ==
    /\ suite = "resources"
    /\ LET t == rtools[rk].name
       IN  \E pidfile \in (IF t = "fgp_browser" THEN BOOLEAN ELSE {FALSE}),
              socket \in (IF t = "fgp_browser" THEN BOOLEAN
                          ELSE {backend[t] = "ready"}) :
              LET b   == [backend EXCEPT ![t] =
                            IF socket THEN "ready" ELSE "unreachable"]
                  out == CallAll(t, TRUE, CHOOSE e \in RunEnvs(b, t) : TRUE,
                                 <<"navigate", "navigate", "snapshot">>)
              IN  /\ backend' = b
                  /\ tool' = t
                  /\ installed' = TRUE
                  /\ cold_start' = IF pidfile THEN out.cold ELSE TRUE
                  /\ rtools' = [rtools EXCEPT ![rk]._cold_start =
                                   IF pidfile THEN out.cold ELSE TRUE]
                  /\ invoked' = IF pidfile THEN invoked \cup {t} ELSE invoked
    /\ IF rk < Len(rtools)
       THEN /\ rk' = rk + 1
            /\ UNCHANGED <<rj, suite>>
       ELSE /\ rk' = 1 /\ rj' = 1
            /\ suite' = AfterSuite("resources")
    /\ UNCHANGED <<report, last, ncalls, runnerVars, calls, workflowVars,
                   statsVars, fnVars, concVars>>

\* run_concurrency_benchmark calls test_concurrent_requests(tool,
\* parallel_count) for the next level
RunStartLevel ==
    /\ suite = "concurrency" /\ cpc = "idle"
    /\ tool' = rtools[rk].name
    /\ installed' = TRUE
    /\ cold_start' = rtools[rk]._cold_start
    /\ parallel_count' = parallel_levels[rj]
    /\ workers' = <<>>
    /\ cpc' = "submit"
    /\ cresults' = <<>>
    /\ times' = <<>>
    /\ cresult' = <<>>
    /\ UNCHANGED <<last, ncalls, runnerVars, calls, workflowVars, statsVars,
                   fnVars, runVars>>

\* the ConcurrencyResult is stored (lines 102-110); time.sleep(1); then
\* the next level, the next tool, or the next suite
RunEndLevel ==
    /\ suite = "concurrency" /\ cpc = "returned"
    /\ report' = Append(report,
                        Trial("concurrency", cresult.tool, "concurrent",
                              cresult.parallel_requests,
                              RatEq(cresult.success_rate, Rat(1, 1)),
                              cresult.total_time_ms))
    /\ invoked' = IF workers = <<>> THEN invoked ELSE invoked \cup {tool}
    /\ rtools' = [rtools EXCEPT ![rk]._cold_start = cold_start]
    /\ parallel_count' = 0 /\ workers' = <<>> /\ cpc' = "idle"
    /\ cresults' = <<>> /\ times' = <<>> /\ cresult' = <<>>
    /\ IF rj < Len(parallel_levels)
       THEN /\ rj' = rj + 1
            /\ UNCHANGED <<rk, suite>>
       ELSE IF rk < Len(rtools)
       THEN /\ rk' = rk + 1 /\ rj' = 1
            /\ UNCHANGED suite
       ELSE /\ rk' = 1 /\ rj' = 1
            /\ suite' = AfterSuite("concurrency")
    /\ UNCHANGED <<backend, adapterVars, runnerVars, calls, workflowVars,
                   statsVars, fnVars>>

\* run_feature_parity_test: the setup navigation and the test of the next
\* feature on the tool it is at; the matrix entry is OK or FAIL after
\* result.success
RunFeature ==
    /\ suite = "feature_parity"
    /\ LET t   == rtools[rk].name
           f   == FEATURE_TESTS[rj]
           ops == IF f.setup THEN <<"navigate">> \o f.test ELSE f.test
           out == CallAll(t, rtools[rk]._cold_start,
                          CHOOSE e \in RunEnvs(backend, t) : TRUE, ops)
       IN  /\ tool' = t
           /\ installed' = TRUE
           /\ cold_start' = out.cold
           /\ rtools' = [rtools EXCEPT ![rk]._cold_start = out.cold]
           /\ report' = Append(report,
                               Trial("feature_parity", t, f.name, 0,
                                     out.result.success,
                                     out.result.latency_ms))
           /\ invoked' = invoked \cup {t}
    /\ IF rj < Len(FEATURE_TESTS)
       THEN /\ rj' = rj + 1
            /\ UNCHANGED <<rk, suite>>
       ELSE IF rk < Len(rtools)
       THEN /\ rk' = rk + 1 /\ rj' = 1
            /\ UNCHANGED suite
       ELSE /\ rk' = 1 /\ rj' = 1
            /\ suite' = AfterSuite("feature_parity")
    /\ UNCHANGED <<backend, last, ncalls, runnerVars, calls, workflowVars,
                   statsVars, fnVars, concVars>>

\* report.single_ops["raw_results"]
SingleOpsRaw(rep) ==
    LET measured == SelectSeq(rep, LAMBDA r : r.suite = "single_ops")
    IN  [j \in 1..Len(measured) |-> RawResult(measured[j])]

\* report.statistics = compute_statistics(report, config): an exception it
\* raises leaves run_all_benchmarks before the tools are closed
RunStatistics ==
    /\ suite = "statistics"
    /\ raw' = SingleOpsRaw(report)
    /\ \E tools \in Orders({raw'[j].tool : j \in 1..Len(raw')}),
          operations \in Orders({raw'[j].operation : j \in 1..Len(raw')}) :
         LET out == compute_statistics(raw', tools, operations)
         IN  /\ spc' = IF out.raised THEN "raised" ELSE "returned"
             /\ comparisons' = IF out.raised THEN <<>> ELSE out.comparisons
             /\ suite' = IF out.raised THEN "raised" ELSE "close"
    /\ UNCHANGED <<backend, rtools, rk, rj, report, invoked, adapterVars,
                   runnerVars, calls, workflowVars, fnVars, concVars>>

\* "for tool in tools: tool.close()": PlaywrightMCPTool.close sets
\* _cold_start = True, the other two do nothing
RunClose ==
    /\ suite = "close"
    /\ rtools' = [k \in 1..Len(rtools) |->
                    IF rtools[k].name = "playwright_mcp"
                    THEN [rtools[k] EXCEPT !._cold_start = TRUE]
                    ELSE rtools[k]]
    /\ suite' = "done"
    /\ UNCHANGED <<backend, rk, rj, report, invoked, adapterVars, runnerVars,
                   calls, workflowVars, statsVars, fnVars, concVars>>

RunNext ==
    \/ RunDiscover
    \/ RunStartOp
    \/ RunnerSetup(RunEnvs(backend, tool))
    \/ RunnerWarmup(RunEnvs(backend, tool))
    \/ RunnerMeasure(RunEnvs(backend, tool))
    \/ RunnerSummarize
    \/ RunEndOp
    \/ RunStartWorkflow
    \/ WorkflowStep(RunEnvs(backend, tool))
    \/ RunEndWorkflow
    \/ RunResources
    \/ RunStartLevel
    \/ ConcSubmit
    \/ WorkerRun(RunEnvs(backend, tool), {FALSE})
    \/ ConcCollect
    \/ ConcReturn
    \/ RunEndLevel
    \/ RunFeature
    \/ RunStatistics
    \/ RunClose

SpecRunAll == RunInit /\ [][RunNext]_vars

(***************************************************************************)
(* The concurrency sweep inside the whole run.                             *)
(***************************************************************************)
\* the futures whose worker has not finished
RunningWorkers(ws) == {k \in 1..Len(ws) : ws[k].st = "running"}

\* the results of the concurrency levels the report holds, in their order
ConcTrials(rep) == SelectSeq(rep, LAMBDA r : r.suite = "concurrency")

\* the levels that have returned are 1, 2, 3, 5 for the first tool, then
\* for the second, and so on, and the level that runs is the next one
SweepInOrder ==
    LET done == ConcTrials(report)
        n    == Len(done)
    IN  /\ \A j \in 1..n :
              /\ done[j].tool = rtools[((j - 1) \div 4) + 1].name
              /\ done[j].n = <<1, 2, 3, 5>>[((j - 1) % 4) + 1]
        /\ cpc # "idle" =>
              /\ tool = rtools[(n \div 4) + 1].name
              /\ parallel_count = <<1, 2, 3, 5>>[(n % 4) + 1]

\* C19: run_concurrency_benchmark runs the levels 1, 2, 3, 5 in that order
\* for each tool, one tool after another; a level returns only when none of
\* its workers is running, so workers of two levels never run at the same
\* time; workers run in the concurrency suite only, and none is running
\* when a runner or a workflow makes an adapter call or a result is added
\* to the report.
C19_SweepSequential ==
    [][ /\ SweepInOrder'
        /\ (cpc' = "returned" /\ cpc # "returned")
              => RunningWorkers(workers) = {}
        /\ (cpc' = "submit" /\ cpc = "idle") => workers' = <<>>
        /\ RunningWorkers(workers') # {} => suite' = "concurrency"
        /\ (calls' # calls \/ report' # report)
              => RunningWorkers(workers) = {} /\ RunningWorkers(workers') = {}
      ]_vars

\* the second tool is at level 5, its three earlier levels and the four of
\* the first tool have returned, and several workers are running
C19_Witness ==
    /\ suite = "concurrency" /\ rk = 2 /\ parallel_count = 5
    /\ Len(ConcTrials(report)) = 7
    /\ Cardinality(RunningWorkers(workers)) >= 2

\* the results the report holds for tool t
TrialsOf(t) == SelectSeq(report, LAMBDA r : r.tool = t)

\* C20: a backend that is not installed or not reachable is skipped
\* entirely: no operation is invoked on it and the report holds no result
\* for it.  (Stated for the suites that run before run_resource_benchmark,
\* whose start() can bring a backend up.)
C20_UnavailableIsSkipped ==
    suite \in {"init", "single_ops", "workflows"} =>
        \A t \in Tools :
            backend[t] # "ready" => t \notin invoked /\ TrialsOf(t) = <<>>

\* a backend that is not installed is skipped entirely, in every suite
C20_MissingIsSkipped ==
    \A t \in Tools :
        backend[t] = "missing" => t \notin invoked /\ TrialsOf(t) = <<>>

\* the run is over with a backend missing and another one measured
C20_WitnessMissing ==
    /\ suite = "done"
    /\ \E t \in Tools : backend[t] = "missing"
    /\ \E t \in Tools : t \in invoked /\ TrialsOf(t) # <<>>

\* an unreachable backend is in tools and has failing trials in the report
C20_WitnessUnreachable ==
    /\ suite = "workflows"
    /\ \E t \in Tools :
          /\ backend[t] = "unreachable"
          /\ \E j \in 1..Len(report) :
                report[j].tool = t /\ ~report[j].success

(***************************************************************************)
(* The error text and the token estimate of the results the adapters       *)
(* return.                                                                 *)
(***************************************************************************)
\* C21: every failed BenchmarkResult an adapter returns carries an error
\* string of at most 500 characters.
C21_FailedErrorAtMost500 ==
    (ncalls > 0 /\ ~last.success) =>
        ~last.error.isNone /\ last.error.len <= 500

\* the results of the two command-line adapters keep to the limit: only
\* _call_mcp returns str(response["error"]) uncut
C21_CliErrorAtMost500 ==
    (ncalls > 0 /\ ~last.success /\ tool # "playwright_mcp") =>
        ~last.error.isNone /\ last.error.len <= 500

\* a command-line adapter failed with more than 500 characters on stderr
C21_WitnessCut ==
    /\ ncalls > 0 /\ ~last.success /\ tool # "playwright_mcp"
    /\ last.error.text = "stderr" /\ last.error.len = 500

\* the MCP adapter failed with an error member longer than 500 characters
C21_WitnessUncut ==
    /\ ncalls > 0 /\ ~last.success /\ tool = "playwright_mcp"
    /\ last.error.text = "response error" /\ last.error.len > 500

\* C22: in every BenchmarkResult an adapter produces, token_estimate is
\* payload_size divided by 4, rounded down.
C22_TokensArePayloadOver4 ==
    ncalls > 0 => last.token_estimate = last.payload_size \div 4

\* the two command-line adapters take both numbers from stdout
C22_CliTokensArePayloadOver4 ==
    (ncalls > 0 /\ tool # "playwright_mcp") =>
        last.token_estimate = last.payload_size \div 4

\* a command-line adapter returned a result with a payload
C22_WitnessCli ==
    /\ ncalls > 0 /\ tool # "playwright_mcp"
    /\ last.payload_size = 7 /\ last.token_estimate = 1

\* the MCP adapter returned a successful result whose token estimate counts
\* the whole of stdout and whose payload_size counts the result member
C22_WitnessMcp ==
    /\ ncalls > 0 /\ tool = "playwright_mcp" /\ last.success
    /\ last.token_estimate # last.payload_size \div 4

(***************************************************************************)
(* The steps workflow_pagination records.                                  *)
(***************************************************************************)
\* the step names of a complete pagination run over k pages: navigate,
\* snapshot_page1, then click_next_i and snapshot_page<i> for i = 2..k
RECURSIVE PaginationNames(_)
PaginationNames(k) ==
    IF k <= 1 THEN <<"navigate", "snapshot_page1">>
    ELSE PaginationNames(k - 1)
           \o <<"click_next_" \o ToString(k), "snapshot_page" \o ToString(k)>>

StepNames(steps) == [j \in 1..Len(steps) |-> steps[j].step_name]

FallbackStepNames ==
    {"click_author"} \cup {"click_next_" \o ToString(n) : n \in 2..9}

\* the adapter calls a step of the workflow added to the log
NewCalls == SubSeq(calls', Len(calls) + 1, Len(calls'))

\* C24: in click_author and in each click_next_i, a click that succeeds is
\* the only call of the step; a click that fails is followed by exactly one
\* fallback navigate; either way exactly one StepResult is recorded, and it
\* is successful exactly when the click or the fallback navigate succeeded.
C24_FallbackOnce ==
    [][ (Len(wresult'.steps) > Len(wresult.steps)
           /\ wresult'.steps[Len(wresult'.steps)].step_name
                 \in FallbackStepNames)
        => /\ Len(wresult'.steps) = Len(wresult.steps) + 1
           /\ Len(NewCalls) >= 1
           /\ NewCalls[1].operation = "click"
           /\ NewCalls[1].success => Len(NewCalls) = 1
           /\ ~NewCalls[1].success =>
                 /\ Len(NewCalls) = 2
                 /\ NewCalls[2].operation = "navigate"
           /\ wresult'.steps[Len(wresult'.steps)].success
                 <=> \E j \in 1..Len(NewCalls) : NewCalls[j].success
      ]_vars

\* click_author was recorded successful after its click failed and the
\* fallback navigate succeeded
C24_Witness ==
    /\ wf = "search_extract" /\ Len(wresult.steps) >= 3
    /\ wresult.steps[3].step_name = "click_author"
    /\ wresult.steps[3].success
    /\ Len(calls) >= 4
    /\ calls[3].operation = "click" /\ ~calls[3].success
    /\ calls[4].operation = "navigate" /\ calls[4].success

\* click_next_2 was recorded failed after its click and the fallback failed
C24_WitnessPagination ==
    /\ wf = "pagination" /\ Len(wresult.steps) >= 3
    /\ wresult.steps[3].step_name = "click_next_2"
    /\ ~wresult.steps[3].success
    /\ Len(calls) >= 4
    /\ calls[3].operation = "click" /\ ~calls[3].success
    /\ calls[4].operation = "navigate" /\ ~calls[4].success

(***************************************************************************)
(* _percentile at and past the last index.                                 *)
(***************************************************************************)
\* C25: for non-empty data and p >= 100, p > 100 included, _percentile
\* returns the maximum of data and does not raise.
C25_ClampsToMaximum ==
    (fpc = "_percentile" /\ sampleA # <<>> /\ fout.p >= 100) =>
        ~fout.value.raised /\ RatEq(fout.value, max(sampleA))

\* at p = 100 the index is the last one and the maximum is returned
C25_MaximumAt100 ==
    (fpc = "_percentile" /\ sampleA # <<>> /\ fout.p = 100) =>
        ~fout.value.raised /\ RatEq(fout.value, max(sampleA))

\* p = 100 on three values that are not sorted
C25_WitnessAt100 ==
    /\ fpc = "_percentile" /\ fout.p = 100
    /\ sampleA = <<3, 1, 2>>
    /\ RatEq(fout.value, Rat(3, 1))

\* p = 150 on three values: int(k) is 3, an index the list does not have
C25_WitnessRaised ==
    /\ fpc = "_percentile" /\ fout.p = 150
    /\ Len(sampleA) = 3
    /\ fout.value.raised

(***************************************************************************)
(* The U statistic and the ranks of ties.                                  *)
(***************************************************************************)
\* twice (the number of pairs x in s1, y in s2 with x > y, plus half the
\* number of pairs with x = y)
PairsAbove2(s1, s2) ==
    2 * Cardinality({pr \in (1..Len(s1)) \X (1..Len(s2)) :
                        s1[pr[1]] > s2[pr[2]]})
      + Cardinality({pr \in (1..Len(s1)) \X (1..Len(s2)) :
                        s1[pr[1]] = s2[pr[2]]})

\* C26: for non-empty samples tied values get the average rank of their
\* block, so U1 = rank-sum(sample1) - n1(n1+1)/2 is the number of pairs
\* with x > y plus half the number of pairs with x = y; the reported U is
\* min(U1, n1*n2 - U1), hence 0 <= U <= n1*n2/2.  (All numbers doubled.)
C26_TiesGetAverageRank ==
    (fpc = "mann_whitney_u" /\ sampleA # <<>> /\ sampleB # <<>>) =>
        LET n1   == Len(sampleA)
            n2   == Len(sampleB)
            u1_2 == PairsAbove2(sampleA, sampleB)
            u2_2 == 2 * n1 * n2 - u1_2
        IN  /\ RankSum2(sampleA, sampleA \o sampleB) - n1 * (n1 + 1) = u1_2
            /\ fout.u2 = IF u1_2 <= u2_2 THEN u1_2 ELSE u2_2
            /\ 0 <= fout.u2
            /\ fout.u2 <= n1 * n2

\* samples with a block of three tied values across both samples: U1 is
\* 2 + 2/2 = 3, U2 is 1, and U = 1 is reported
C26_Witness ==
    /\ fpc = "mann_whitney_u"
    /\ sampleA = <<2, 3>> /\ sampleB = <<2, 2>>
    /\ fout.u2 = 2

(***************************************************************************)
(* The cold-start flag of an adapter instance used sequentially.           *)
(***************************************************************************)
\* C27: the flag is cold after construction and after stop(); it goes from
\* cold to warm on the first successful call and not before (a call that
\* fails, times out or raises leaves the adapter cold); the result of the
\* call that makes the transition is the only one tagged is_cold_start.
C27_WarmOnFirstSuccess ==
    [][ /\ ncalls' = ncalls + 1 =>
              /\ cold_start' = (cold_start /\ ~last'.success)
              /\ last'.is_cold_start = (cold_start /\ last'.success)
        /\ (ncalls' = ncalls /\ cold_start' # cold_start) => cold_start'
      ]_vars

\* what the adapters do: the flag goes from cold to warm on the first call
\* whose command ran to its end, whatever its exit status; a call that
\* finds no daemon or command, times out or raises leaves it as it is; the
\* result of the call that makes the transition is the one tagged
\* is_cold_start; only stop() makes the adapter cold again
C27_WarmOnFirstCompleted ==
    [][ /\ ncalls' = ncalls + 1 =>
              /\ cold_start' => cold_start
              /\ last'.success => ~cold_start'
              /\ last'.is_cold_start = (cold_start /\ ~cold_start')
        /\ (ncalls' = ncalls /\ cold_start' # cold_start) => cold_start'
      ]_vars

\* a failed call has made the adapter warm and carries the cold-start tag
C27_WitnessFailedWarm ==
    /\ ncalls > 0 /\ ~last.success
    /\ last.is_cold_start /\ ~cold_start

\* a timed-out call has left the adapter cold
C27_WitnessStillCold ==
    /\ ncalls > 0 /\ ~last.success /\ last.error.text = "Timeout after 60s"
    /\ ~last.is_cold_start /\ cold_start /\ installed

(***************************************************************************)
(* The workers of test_concurrent_requests at the grain of the adapter's   *)
(* two statements "is_cold = self._cold_start" and                         *)
(* "self._cold_start = False": the threads share the adapter instance and  *)
(* another worker can run between the read and the write.  A worker is     *)
(*   running  its command has not returned                                 *)
(*   read     it has read _cold_start into is_cold                         *)
(*   done     it has written False and returned its BenchmarkResult        *)
(* and holds the BenchmarkResult it builds in result.                      *)
(***************************************************************************)
\* the paths of the adapters' call routines that reach the two statements:
\* the command ran to its end (FGP: and the socket was there)
ReadsFlag(t, inst, env) ==
    /\ inst
    /\ env.kind = "completed"
    /\ t = "fgp_browser" => env.socket

RacingWorker(w, st, result) ==
    [url |-> w.url, st |-> st, success |-> result.success,
     elapsed |-> result.latency_ms + CallOverheadMs, raised |-> FALSE,
     result |-> result]

\* subprocess.run returns in a worker and is_cold = self._cold_start is
\* read; on the other paths the worker returns its failed result at once
WorkerRead(envs) ==
    /\ cpc \in {"submit", "collect"}
    /\ \E k \in 1..Len(workers), env \in envs :
         /\ workers[k].st = "running"
         /\ LET r == Invoke(tool, installed, cold_start, env, "navigate",
                            "default", 0).result
            IN  workers' = [workers EXCEPT ![k] =
                    RacingWorker(@, IF ReadsFlag(tool, installed, env)
                                    THEN "read" ELSE "done", r)]
    /\ UNCHANGED <<parallel_count, cpc, cresults, times, cresult, tool,
                   installed, cold_start, outsideConc>>

\* self._cold_start = False, and the BenchmarkResult is returned with the
\* is_cold the worker has read
WorkerWrite ==
    /\ cpc \in {"submit", "collect"}
    /\ \E k \in 1..Len(workers) :
         /\ workers[k].st = "read"
         /\ workers' = [workers EXCEPT ![k].st = "done"]
    /\ cold_start' = FALSE
    /\ UNCHANGED <<parallel_count, cpc, cresults, times, cresult, tool,
                   installed, outsideConc>>

\* the command of a worker exits with status 0 or 1 after 100 ms, or runs
\* into the adapter's timeout
RaceEnvs(t) ==
    {e \in EnvsOf(t, {7}, {0}, {}, {100}) :
        e.socket /\ e.reply \in {"none", "result"}}

RaceNext ==
    \/ ConcSubmit
    \/ WorkerRead(RaceEnvs(tool))
    \/ WorkerWrite
    \/ ConcCollect
    \/ ConcReturn

RaceInit ==
    /\ tool \in Tools
    /\ installed = TRUE
    /\ cold_start = TRUE
    /\ last = NoResult /\ ncalls = 0 /\ calls = <<>>
    /\ RunnerIdle
    /\ WorkflowIdle
    /\ StatsIdle
    /\ FnIdle
    /\ RunIdle
    /\ parallel_count \in 1..MaxRacers
    /\ ConcStart

SpecColdRace == RaceInit /\ [][RaceNext]_vars

\* the workers whose BenchmarkResult is tagged is_cold_start
TaggedCold(ws) ==
    {k \in 1..Len(ws) : ws[k].st # "running" /\ ws[k].result.is_cold_start}

\* C28: of the BenchmarkResults the workers sharing one cold adapter
\* produce, at most one is tagged is_cold_start, in every interleaving of
\* their reads and writes of _cold_start.
C28_AtMostOneColdStart ==
    Cardinality(TaggedCold(workers)) <= 1

\* once a worker has written False, no worker that reads later is tagged
C28_NoTagAfterWrite ==
    [][ \A k \in 1..Len(workers) :
            (workers[k].st = "running" /\ workers'[k].st # "running"
               /\ ~cold_start)
            => ~workers'[k].result.is_cold_start ]_vars

\* two workers have read the flag before either wrote it, and both results
\* are tagged
C28_WitnessTwoTagged ==
    /\ cpc = "returned"
    /\ Cardinality(TaggedCold(workers)) >= 2

\* a level has returned with exactly one tagged result among several
C28_WitnessOneTagged ==
    /\ cpc = "returned" /\ Len(workers) >= 2
    /\ Cardinality(TaggedCold(workers)) = 1

(***************************************************************************)
(* The recorded steps against the hardcoded plans.                         *)
(***************************************************************************)
\* the step names of the four workflow functions as the source spells them
PlanNames(w, k) ==
    IF w = "login"
    THEN <<"navigate", "fill_username", "fill_password", "click_submit",
           "verify_snapshot">>
    ELSE IF w = "search_extract"
    THEN <<"navigate", "snapshot_initial", "click_author", "snapshot_author",
           "navigate_back", "snapshot_final">>
    ELSE IF w = "form_submit"
    THEN <<"navigate", "fill_name", "fill_phone", "fill_email",
           "check_topping", "fill_comments", "screenshot">>
    ELSE PaginationNames(k)

StepsArePrefix ==
    LET names == StepNames(wresult.steps)
        plan  == PlanNames(wf, pages)
    IN  /\ Len(names) <= Len(plan)
        /\ names = SubSeq(plan, 1, Len(names))

\* C29: in every reachable state of every workflow function the recorded
\* steps are, in order, a prefix of the workflow's plan of step names: no
\* step twice, none skipped; the adapter calls made in a step are those of
\* the step after the last one recorded, whose StepResult is then appended.
C29_StepsFollowPlan ==
    [][ /\ StepsArePrefix /\ StepsArePrefix'
        /\ calls' # calls =>
              /\ Len(wresult'.steps) = Len(wresult.steps) + 1
              /\ SubSeq(wresult'.steps, 1, Len(wresult.steps))
                    = wresult.steps
              /\ NewCalls[1].operation
                    = Plan(wf, pages)[Len(wresult.steps) + 1].op
              /\ Len(calls') <= 2 * Len(wresult'.steps)
      ]_vars

\* a form_submit run in progress: three steps recorded, the second failed
C29_Witness ==
    /\ ~returned /\ wf = "form_submit"
    /\ Len(wresult.steps) = 3
    /\ ~wresult.steps[2].success
    /\ wresult.steps[3].step_name = "fill_phone"

(***************************************************************************)
(* Termination of test_concurrent_requests.  Every adapter call ends: the  *)
(* adapters give subprocess.run a timeout of 60 s and catch every          *)
(* exception, so a worker that is running eventually returns or raises     *)
(* (weak fairness of WorkerRun); the calling thread is never held up by    *)
(* anything but the workers (weak fairness of its own steps).              *)
(***************************************************************************)
SpecConcurrentFair ==
    /\ RaceInit
    /\ [][ConcNext]_vars
    /\ WF_vars(ConcSubmit)
    /\ WF_vars(WorkerRun(ConcEnvs(tool), BOOLEAN))
    /\ WF_vars(ConcCollect)
    /\ WF_vars(ConcReturn)

\* test_concurrent_requests has returned; no worker is running; every
\* dispatched request has one entry in results and one in times, and the
\* flags count the workers that returned success
ReturnedComplete ==
    /\ cpc = "returned"
    /\ RunningWorkers(workers) = {}
    /\ Len(workers) = Len(UrlsOf(parallel_count))
    /\ Len(cresults) = Len(workers)
    /\ Len(times) = Len(workers)
    /\ Len(cresult.individual_times_ms) = Len(workers)
    /\ CountTrue(cresults)
         = Cardinality({k \in 1..Len(workers) :
                           workers[k].success /\ ~workers[k].raised})

\* C30: if every adapter navigate call eventually returns or raises,
\* test_concurrent_requests eventually returns, and when it has returned no
\* worker is running and every dispatched request has exactly one entry in
\* the collected success flags and one in individual_times_ms.
C30_EventuallyReturnsComplete == <>[]ReturnedComplete

\* a level of three workers has returned: one succeeded, one timed out and
\* one raised
C30_Witness ==
    /\ cpc = "returned" /\ Len(workers) = 3
    /\ \E a, b, c \in 1..3 :
          /\ workers[a].success
          /\ ~workers[b].success /\ ~workers[b].raised
          /\ workers[c].raised
    /\ Len(cresults) = 3

====
